---- MODULE Spec2Model ----
(***************************************************************************)
(* Double-entry ledger core of accounting-blue: the in-memory storage      *)
(* (utils/memory_storage.rs), the account registry (ledger/account.rs) and *)
(* the transaction recorder (ledger/transaction.rs), driven through the    *)
(* Ledger facade (ledger/core.rs) with the default validators.             *)
(*                                                                         *)
(* BigDecimal amounts are modelled as integers (arbitrary precision, exact *)
(* equality); dates as small naturals ordered like NaiveDate.              *)
(***************************************************************************)
EXTENDS Integers, Sequences, FiniteSets, TLC

(***************************************************************************)
(* Bounds of the model.                                                    *)
(***************************************************************************)
MaxOps == 4
MaxEntries == 2
MaxAmount == 1
MaxDate == 2

AccountIds == {"a1", "a2"}
TxnIds == {"t1", "t2"}
Dates == 1..MaxDate
Amounts == 0..MaxAmount

(***************************************************************************)
(* types.rs                                                                *)
(***************************************************************************)
AccountType == {"Asset", "Liability", "Equity", "Income", "Expense"}
EntryType == {"Debit", "Credit"}

NoParent == "None"
None == <<>>
Some(value) == <<value>>
NoTxn == [id |-> "None", date |-> 0, entries |-> <<>>]

normal_balance(account_type) ==
    IF account_type \in {"Asset", "Expense"} THEN "Debit" ELSE "Credit"

Account_new(id, name, account_type, parent_id) ==
    [id |-> id, name |-> name, account_type |-> account_type,
     parent_id |-> parent_id, balance |-> 0]

apply_entry_always_adds(account, entry_type, amount) ==
    [account EXCEPT !.balance = @ + amount]

apply_entry(account, entry_type, amount) ==
    IF normal_balance(account.account_type) = entry_type
    THEN [account EXCEPT !.balance = @ + amount]
    ELSE [account EXCEPT !.balance = @ - amount]

RECURSIVE SumAmounts(_, _)
SumAmounts(entries, entry_type) ==
    IF entries = <<>> THEN 0
    ELSE (IF Head(entries).entry_type = entry_type THEN Head(entries).amount ELSE 0)
         + SumAmounts(Tail(entries), entry_type)

total_debits(txn) == SumAmounts(txn.entries, "Debit")
total_credits(txn) == SumAmounts(txn.entries, "Credit")
is_balanced(txn) == total_debits(txn) = total_credits(txn)

validate_without_balance_check(txn) ==
    IF Len(txn.entries) < 2 THEN "InvalidTransaction"
    ELSE IF \E i \in 1..Len(txn.entries) : txn.entries[i].amount <= 0
         THEN "InvalidTransaction"
    ELSE "Ok"

validate_reporting_validation(txn) ==
    IF Len(txn.entries) < 2 THEN "Validation"
    ELSE IF ~is_balanced(txn) THEN "Validation"
    ELSE IF \E i \in 1..Len(txn.entries) : txn.entries[i].amount <= 0
         THEN "Validation"
    ELSE "Ok"

validate(txn) ==
    IF Len(txn.entries) = 0 THEN "InvalidTransaction"
    ELSE IF Len(txn.entries) < 2 THEN "InvalidTransaction"
    ELSE IF ~is_balanced(txn) THEN "InvalidTransaction"
    ELSE IF \E i \in 1..Len(txn.entries) : txn.entries[i].amount <= 0
         THEN "InvalidTransaction"
    ELSE "Ok"

(***************************************************************************)
(* traits.rs: the default validators                                       *)
(***************************************************************************)
BlankStrings == {"", " "}

trim(text) == IF text \in BlankStrings THEN "" ELSE text

validate_account(account) ==
    IF trim(account.id) = "" THEN "Validation"
    ELSE IF trim(account.name) = "" THEN "Validation"
    ELSE "Ok"

validate_account_deletion(account_id) == "Ok"

validate_transaction(txn) == validate(txn)
validate_account_references(txn) == "Ok"

(***************************************************************************)
(* State: the two maps of MemoryStorage, shared by the managers of one     *)
(* Ledger, and the record of the last call made on the Ledger.             *)
(***************************************************************************)
VARIABLES accounts, transactions, last, prev, pre_record, nops, tasks

vars == <<accounts, transactions, last, prev, pre_record, nops, tasks>>

EmptyMap == [k \in {} |-> k]

NoArg == [well_formed |-> FALSE, accounts_known |-> FALSE, first_known |-> FALSE]

NoPreRecord == [id |-> "None", accounts |-> EmptyMap]

(* tasks: the calls in flight, one per Ledger instance sharing the storage; *)
(* used where an operation is followed lock by lock.                       *)
Ledgers == {"L1", "L2"}

IdleTask == [pc |-> "idle", op |-> "None", txn |-> NoTxn, old |-> NoTxn,
             phase |-> "None", i |-> 0, account |-> None, result |-> "None"]

Init ==
    /\ tasks = [ledger \in Ledgers |-> IdleTask]
    /\ accounts = EmptyMap
    /\ transactions = EmptyMap
    /\ last = [op |-> "new", id |-> "None", result |-> "Ok", txn |-> NoTxn,
               arg |-> NoArg]
    /\ prev = [accounts |-> EmptyMap, transactions |-> EmptyMap]
    /\ pre_record = NoPreRecord
    /\ nops = 0

(***************************************************************************)
(* utils/memory_storage.rs: HashMap operations.  Each returns the new map  *)
(* (the in-memory backend never fails with a Storage error).               *)
(***************************************************************************)
map_insert(map, key, value) == (key :> value) @@ map
map_remove(map, key) == [k \in DOMAIN map \ {key} |-> map[k]]

(* update_account answers AccountNotFound for an absent id and writes      *)
(* nothing; the balance loops call it only for an id they have just read.  *)
save_account(accts, account) == map_insert(accts, account.id, account)

storage_update_account(accts, account) ==
    IF account.id \in DOMAIN accts
    THEN map_insert(accts, account.id, account)
    ELSE accts

storage_delete_account(accts, account_id) ==
    IF account_id \in DOMAIN accts
    THEN [result |-> "Ok", accounts |-> map_remove(accts, account_id)]
    ELSE [result |-> "AccountNotFound", accounts |-> accts]

save_transaction(txns, txn) == map_insert(txns, txn.id, txn)

storage_update_transaction(txns, txn) ==
    IF txn.id \in DOMAIN txns
    THEN [result |-> "Ok", transactions |-> map_insert(txns, txn.id, txn)]
    ELSE [result |-> "TransactionNotFound", transactions |-> txns]

storage_delete_transaction(txns, id) ==
    IF id \in DOMAIN txns
    THEN [result |-> "Ok", transactions |-> map_remove(txns, id)]
    ELSE [result |-> "TransactionNotFound", transactions |-> txns]

(***************************************************************************)
(* ledger/transaction.rs: the balance loops of the TransactionManager.     *)
(* Entries are visited in order; an entry whose account is absent is       *)
(* skipped (if let Some(..)); each account is re-read from storage before  *)
(* its entry is applied.                                                   *)
(***************************************************************************)
reverse_type_unflipped(entry_type) == entry_type

reverse_type(entry_type) == IF entry_type = "Debit" THEN "Credit" ELSE "Debit"

RECURSIVE post_entries(_, _)
post_entries(accts, entries) ==
    IF entries = <<>> THEN accts
    ELSE LET entry == Head(entries)
             after == IF entry.account_id \in DOMAIN accts
                      THEN storage_update_account(accts,
                               apply_entry(accts[entry.account_id],
                                           entry.entry_type, entry.amount))
                      ELSE accts
         IN post_entries(after, Tail(entries))

reverse_entries_skipped(accts, entries) == accts

RECURSIVE reverse_entries(_, _)
reverse_entries(accts, entries) ==
    IF entries = <<>> THEN accts
    ELSE LET entry == Head(entries)
             after == IF entry.account_id \in DOMAIN accts
                      THEN storage_update_account(accts,
                               apply_entry(accts[entry.account_id],
                                           reverse_type(entry.entry_type),
                                           entry.amount))
                      ELSE accts
         IN reverse_entries(after, Tail(entries))

accounts_exist(accts, txn) ==
    \A i \in 1..Len(txn.entries) : txn.entries[i].account_id \in DOMAIN accts

(***************************************************************************)
(* The record of a call: which operation, on which id, how it returned,    *)
(* the transaction it was given when it accepted it (txn), what kind of    *)
(* transaction it was given whether accepted or not (arg, see ArgOf), and  *)
(* the storage as it was before the call.                                  *)
(* pre_record keeps, for a delete_transaction that directly follows a      *)
(* successful record_transaction of the same id, the accounts as they were *)
(* before that record.                                                     *)
(***************************************************************************)
WellFormed(txn) ==
    /\ Len(txn.entries) >= 2
    /\ \A i \in 1..Len(txn.entries) : txn.entries[i].amount > 0
    /\ SumAmounts(txn.entries, "Debit") = SumAmounts(txn.entries, "Credit")

ArgOf(txn) ==
    [well_formed |-> WellFormed(txn),
     accounts_known |-> \A i \in 1..Len(txn.entries) :
                           txn.entries[i].account_id \in DOMAIN accounts,
     first_known |-> /\ Len(txn.entries) >= 1
                     /\ txn.entries[1].account_id \in DOMAIN accounts]

Called(op, id, txn, result) ==
    /\ nops < MaxOps
    /\ nops' = nops + 1
    /\ last' = [op |-> op, id |-> id, result |-> result,
                txn |-> IF result = "Ok" THEN txn ELSE NoTxn,
                arg |-> IF txn = NoTxn THEN NoArg ELSE ArgOf(txn)]
    /\ prev' = [accounts |-> accounts, transactions |-> transactions]
    /\ pre_record' =
          IF /\ op = "delete_transaction"
             /\ last.op = "record_transaction"
             /\ last.result = "Ok"
             /\ last.id = id
          THEN [id |-> id, accounts |-> prev.accounts]
          ELSE NoPreRecord
    /\ UNCHANGED tasks

(***************************************************************************)
(* ledger/account.rs: AccountManager::create_account                       *)
(***************************************************************************)
create_account_result_without_exists_check(id, name, account_type, parent_id) ==
    LET account == Account_new(id, name, account_type, parent_id)
    IN  IF validate_account(account) # "Ok" THEN validate_account(account)
        ELSE IF parent_id # NoParent /\ parent_id \notin DOMAIN accounts
             THEN "Validation"
        ELSE "Ok"

create_account_result(id, name, account_type, parent_id) ==
    LET account == Account_new(id, name, account_type, parent_id)
    IN  IF validate_account(account) # "Ok" THEN validate_account(account)
        ELSE IF id \in DOMAIN accounts THEN "Validation"
        ELSE IF parent_id # NoParent /\ parent_id \notin DOMAIN accounts
             THEN "Validation"
        ELSE "Ok"

create_account(id, name, account_type, parent_id) ==
    LET result == create_account_result(id, name, account_type, parent_id)
    IN  /\ Called("create_account", id, NoTxn, result)
        /\ accounts' = IF result = "Ok"
                       THEN save_account(accounts,
                                Account_new(id, name, account_type, parent_id))
                       ELSE accounts
        /\ UNCHANGED transactions

(***************************************************************************)
(* ledger/transaction.rs: TransactionManager                               *)
(***************************************************************************)
record_transaction_result_without_lookup(txn) ==
    IF validate_transaction(txn) # "Ok" THEN validate_transaction(txn)
    ELSE IF validate_account_references(txn) # "Ok"
         THEN validate_account_references(txn)
    ELSE "Ok"

record_transaction_result(txn) ==
    IF validate_transaction(txn) # "Ok" THEN validate_transaction(txn)
    ELSE IF validate_account_references(txn) # "Ok"
         THEN validate_account_references(txn)
    ELSE IF ~accounts_exist(accounts, txn) THEN "AccountNotFound"
    ELSE "Ok"

record_transaction(txn) ==
    LET result == record_transaction_result(txn)
    IN  /\ Called("record_transaction", txn.id, txn, result)
        /\ IF result = "Ok"
           THEN /\ transactions' = save_transaction(transactions, txn)
                /\ accounts' = post_entries(accounts, txn.entries)
           ELSE UNCHANGED <<accounts, transactions>>

update_transaction_result(txn) ==
    IF txn.id \notin DOMAIN transactions THEN "TransactionNotFound"
    ELSE IF validate_transaction(txn) # "Ok" THEN validate_transaction(txn)
    ELSE IF validate_account_references(txn) # "Ok"
         THEN validate_account_references(txn)
    ELSE "Ok"

update_transaction_reversing_before_validation(txn) ==
    LET result == update_transaction_result(txn)
    IN  /\ Called("update_transaction", txn.id, txn, result)
        /\ IF result = "Ok"
           THEN /\ accounts' = post_entries(
                                  reverse_entries(accounts,
                                                  transactions[txn.id].entries),
                                  txn.entries)
                /\ transactions' =
                      storage_update_transaction(transactions, txn).transactions
           ELSE IF result = "InvalidTransaction"
           THEN /\ accounts' = reverse_entries(accounts,
                                               transactions[txn.id].entries)
                /\ UNCHANGED transactions
           ELSE UNCHANGED <<accounts, transactions>>

update_transaction_from_stale_accounts(txn) ==
    LET result == update_transaction_result(txn)
    IN  /\ Called("update_transaction", txn.id, txn, result)
        /\ IF result = "Ok"
           THEN LET reversed == reverse_entries(accounts,
                                                transactions[txn.id].entries)
                    applied == post_entries(accounts, txn.entries)
                IN  /\ accounts' =
                          [a \in DOMAIN accounts |->
                              IF \E i \in 1..Len(txn.entries) :
                                    txn.entries[i].account_id = a
                              THEN applied[a] ELSE reversed[a]]
                    /\ transactions' =
                          storage_update_transaction(transactions, txn).transactions
           ELSE UNCHANGED <<accounts, transactions>>

update_transaction_creating(txn) ==
    LET result == IF update_transaction_result(txn) = "TransactionNotFound"
                  THEN record_transaction_result(txn)
                  ELSE update_transaction_result(txn)
    IN  /\ Called("update_transaction", txn.id, txn, result)
        /\ IF result = "Ok"
           THEN LET reversed == IF txn.id \in DOMAIN transactions
                                THEN reverse_entries(accounts,
                                         transactions[txn.id].entries)
                                ELSE accounts
                IN  /\ accounts' = post_entries(reversed, txn.entries)
                    /\ transactions' = save_transaction(transactions, txn)
           ELSE UNCHANGED <<accounts, transactions>>

update_transaction(txn) ==
    LET result == update_transaction_result(txn)
    IN  /\ Called("update_transaction", txn.id, txn, result)
        /\ IF result = "Ok"
           THEN LET old_transaction == transactions[txn.id]
                    reversed == reverse_entries(accounts, old_transaction.entries)
                IN  /\ accounts' = post_entries(reversed, txn.entries)
                    /\ transactions' =
                          storage_update_transaction(transactions, txn).transactions
           ELSE UNCHANGED <<accounts, transactions>>

delete_transaction_result(id) ==
    IF id \notin DOMAIN transactions THEN "TransactionNotFound" ELSE "Ok"

delete_transaction(id) ==
    LET result == delete_transaction_result(id)
    IN  /\ Called("delete_transaction", id, NoTxn, result)
        /\ IF result = "Ok"
           THEN /\ accounts' = reverse_entries(accounts, transactions[id].entries)
                /\ transactions' =
                      storage_delete_transaction(transactions, id).transactions
           ELSE UNCHANGED <<accounts, transactions>>

(***************************************************************************)
(* Inputs.                                                                 *)
(***************************************************************************)
Entries == [account_id : AccountIds, entry_type : EntryType, amount : Amounts]

EntrySeqs == UNION {[1..n -> Entries] : n \in 0..MaxEntries}

TxnInputs == [id : TxnIds, date : Dates, entries : EntrySeqs]

AccountIdInputs == AccountIds \cup {""}
NameInputs == {"", "Cash"}
ParentInputs == {NoParent}

Next ==
    \/ \E id \in AccountIdInputs, name \in NameInputs,
          account_type \in AccountType, parent_id \in ParentInputs :
            create_account(id, name, account_type, parent_id)
    \/ \E txn \in TxnInputs : record_transaction(txn)
    \/ \E txn \in TxnInputs : update_transaction(txn)
    \/ \E id \in TxnIds : delete_transaction(id)

Spec == Init /\ [][Next]_vars

(***************************************************************************)
(* utils/memory_storage.rs: the read operations.                           *)
(***************************************************************************)
get_account_transactions_before_end(txns, account_id, start_date, end_date) ==
    {txns[id] : id \in
        {k \in DOMAIN txns :
            /\ \E i \in 1..Len(txns[k].entries) :
                  txns[k].entries[i].account_id = account_id
            /\ ~(start_date # None /\ txns[k].date < start_date[1])
            /\ ~(end_date # None /\ txns[k].date >= end_date[1])}}

get_account_transactions(txns, account_id, start_date, end_date) ==
    {txns[id] : id \in
        {k \in DOMAIN txns :
            /\ \E i \in 1..Len(txns[k].entries) :
                  txns[k].entries[i].account_id = account_id
            /\ ~(start_date # None /\ txns[k].date < start_date[1])
            /\ ~(end_date # None /\ txns[k].date > end_date[1])}}

get_transactions_after_start(txns, start_date, end_date) ==
    {txns[id] : id \in
        {k \in DOMAIN txns :
            /\ ~(start_date # None /\ txns[k].date <= start_date[1])
            /\ ~(end_date # None /\ txns[k].date > end_date[1])}}

get_transactions(txns, start_date, end_date) ==
    {txns[id] : id \in
        {k \in DOMAIN txns :
            /\ ~(start_date # None /\ txns[k].date < start_date[1])
            /\ ~(end_date # None /\ txns[k].date > end_date[1])}}

RECURSIVE replay_entries(_, _, _, _)
replay_entries(account, entries, account_id, balance) ==
    IF entries = <<>> THEN balance
    ELSE LET entry == Head(entries)
             after == IF entry.account_id = account_id
                      THEN IF normal_balance(account.account_type) = entry.entry_type
                           THEN balance + entry.amount
                           ELSE balance - entry.amount
                      ELSE balance
         IN replay_entries(account, Tail(entries), account_id, after)

RECURSIVE replay_transactions(_, _, _, _)
replay_transactions(account, txnset, account_id, balance) ==
    IF txnset = {} THEN balance
    ELSE LET transaction == CHOOSE t \in txnset : TRUE
         IN replay_transactions(account, txnset \ {transaction}, account_id,
                replay_entries(account, transaction.entries, account_id, balance))

get_account_balance(accts, txns, account_id, as_of_date) ==
    IF account_id \notin DOMAIN accts
    THEN [result |-> "AccountNotFound", balance |-> 0]
    ELSE IF as_of_date = None
    THEN [result |-> "Ok", balance |-> accts[account_id].balance]
    ELSE [result |-> "Ok",
          balance |-> replay_transactions(accts[account_id],
                          get_account_transactions(txns, account_id, None, as_of_date),
                          account_id, 0)]

Abs(n) == IF n < 0 THEN -n ELSE n

account_balance_on_normal_side(accts, txns, account_id, as_of_date) ==
    LET balance == get_account_balance(accts, txns, account_id,
                                       Some(as_of_date)).balance
    IN  IF normal_balance(accts[account_id].account_type) = "Debit"
        THEN [debit_balance |-> Some(balance), credit_balance |-> None]
        ELSE [debit_balance |-> None, credit_balance |-> Some(balance)]

account_balance(accts, txns, account_id, as_of_date) ==
    LET balance == get_account_balance(accts, txns, account_id,
                                       Some(as_of_date)).balance
    IN  IF normal_balance(accts[account_id].account_type) = "Debit"
        THEN IF balance >= 0
             THEN [debit_balance |-> Some(balance), credit_balance |-> None]
             ELSE [debit_balance |-> None, credit_balance |-> Some(Abs(balance))]
        ELSE IF balance >= 0
             THEN [debit_balance |-> None, credit_balance |-> Some(balance)]
             ELSE [debit_balance |-> Some(Abs(balance)), credit_balance |-> None]

RECURSIVE SumSide(_, _, _)
SumSide(rows, ids, side) ==
    IF ids = {} THEN 0
    ELSE LET id == CHOOSE k \in ids : TRUE
             amount == IF side = "Debit" THEN rows[id].debit_balance
                       ELSE rows[id].credit_balance
         IN (IF amount = None THEN 0 ELSE amount[1]) + SumSide(rows, ids \ {id}, side)

get_trial_balance(accts, txns, as_of_date) ==
    LET balances == [id \in DOMAIN accts |->
                        account_balance(accts, txns, id, as_of_date)]
        debits == SumSide(balances, DOMAIN accts, "Debit")
        credits == SumSide(balances, DOMAIN accts, "Credit")
    IN  [as_of_date |-> as_of_date, balances |-> balances,
         total_debits |-> debits, total_credits |-> credits,
         is_balanced |-> (debits = credits)]

(***************************************************************************)
(* The balance-update rule as the specification states it, independent of  *)
(* apply_entry: the net effect of a sequence of entries on one account.    *)
(***************************************************************************)
NormalSide(account_type) ==
    CASE account_type = "Asset" -> "Debit"
      [] account_type = "Expense" -> "Debit"
      [] account_type = "Liability" -> "Credit"
      [] account_type = "Equity" -> "Credit"
      [] account_type = "Income" -> "Credit"

RECURSIVE NetEffect(_, _, _)
NetEffect(entries, account_id, account_type) ==
    IF entries = <<>> THEN 0
    ELSE (IF Head(entries).account_id # account_id THEN 0
          ELSE IF Head(entries).entry_type = NormalSide(account_type)
               THEN Head(entries).amount
               ELSE 0 - Head(entries).amount)
         + NetEffect(Tail(entries), account_id, account_type)

Mentions(txn, account_id) ==
    \E i \in 1..Len(txn.entries) : txn.entries[i].account_id = account_id

Succeeded(op) == last.op = op /\ last.result = "Ok"

StorageUnchanged ==
    accounts = prev.accounts /\ transactions = prev.transactions

LiveBalance(account_id) ==
    get_account_balance(accounts, transactions, account_id, None).balance

LiveBalanceBefore(account_id) ==
    get_account_balance(prev.accounts, prev.transactions, account_id, None).balance

(***************************************************************************)
(* C1: after any sequence of record / update / delete operations, for      *)
(* every account the balance replayed as of a date at or after every       *)
(* stored transaction equals the account's live running balance.           *)
(***************************************************************************)
C1_ReplayEqualsLive ==
    \A a \in DOMAIN accounts :
        get_account_balance(accounts, transactions, a, Some(MaxDate)).balance
            = LiveBalance(a)

(***************************************************************************)
(* C2: after any sequence of successful record / update / delete           *)
(* operations, for every date d the trial balance has total_debits equal   *)
(* to total_credits and is_balanced true.                                  *)
(***************************************************************************)
C2_TrialBalanceBalanced ==
    \A d \in Dates :
        LET tb == get_trial_balance(accounts, transactions, d)
        IN  tb.total_debits = tb.total_credits /\ tb.is_balanced

(***************************************************************************)
(* C3: reversal symmetry.  When delete_transaction(T.id) directly follows  *)
(* a successful record_transaction(T), every account's live balance equals *)
(* its value before T was recorded and get_transaction(T.id) finds nothing.*)
(***************************************************************************)
C3_ReversalSymmetry ==
    (last.op = "delete_transaction" /\ pre_record.id = last.id) =>
        /\ last.result = "Ok"
        /\ DOMAIN accounts = DOMAIN pre_record.accounts
        /\ \A a \in DOMAIN accounts :
              LiveBalance(a) = pre_record.accounts[a].balance
        /\ last.id \notin DOMAIN transactions

C3_Witness ==
    /\ last.op = "delete_transaction"
    /\ pre_record.id = last.id
    /\ \E a \in DOMAIN prev.accounts :
          prev.accounts[a].balance # pre_record.accounts[a].balance

(***************************************************************************)
(* C4: update idempotence on no-op.  A successful update_transaction with  *)
(* a transaction identical to the stored one leaves every live balance     *)
(* unchanged, also when one account appears in several entries.            *)
(***************************************************************************)
C4_UpdateNoOp ==
    (Succeeded("update_transaction") /\ last.txn = prev.transactions[last.id]) =>
        /\ DOMAIN accounts = DOMAIN prev.accounts
        /\ \A a \in DOMAIN accounts : LiveBalance(a) = LiveBalanceBefore(a)

C4_Witness ==
    /\ Succeeded("update_transaction")
    /\ last.txn = prev.transactions[last.id]
    /\ \E i, j \in 1..Len(last.txn.entries) :
          /\ i # j
          /\ last.txn.entries[i].account_id = last.txn.entries[j].account_id
          /\ last.txn.entries[i].account_id \in DOMAIN accounts

(***************************************************************************)
(* C5: record_transaction returns an error for every transaction that is   *)
(* unbalanced, has fewer than two entries or has an amount <= 0; so every  *)
(* stored transaction has at least two entries, only strictly positive     *)
(* amounts, and equal debit and credit totals.                             *)
(***************************************************************************)
C5_RejectsMalformed ==
    /\ (last.op = "record_transaction" /\ ~last.arg.well_formed) =>
          last.result # "Ok"
    /\ \A id \in DOMAIN transactions : WellFormed(transactions[id])

C5_Witness ==
    /\ last.op = "record_transaction"
    /\ ~last.arg.well_formed
    /\ last.result = "InvalidTransaction"
    /\ DOMAIN transactions # {}

(***************************************************************************)
(* C6: record_transaction of a valid transaction with an entry on an       *)
(* account that does not exist fails with AccountNotFound and leaves no    *)
(* partial state: nothing is stored and no balance changes, not even that  *)
(* of an existing account named by an earlier entry.                       *)
(***************************************************************************)
C6_MissingAccountAtomic ==
    (/\ last.op = "record_transaction"
     /\ last.arg.well_formed
     /\ ~last.arg.accounts_known) =>
        /\ last.result = "AccountNotFound"
        /\ StorageUnchanged

C6_Witness ==
    /\ last.op = "record_transaction"
    /\ last.arg.well_formed
    /\ ~last.arg.accounts_known
    /\ last.arg.first_known
    /\ last.result = "AccountNotFound"

(***************************************************************************)
(* C7: a validation failure aborts before any mutation.  When              *)
(* record_transaction or update_transaction is rejected by the transaction *)
(* validator, the stored transactions and every account are exactly as     *)
(* before the call.                                                        *)
(***************************************************************************)
C7_ValidationAborts ==
    (/\ last.op \in {"record_transaction", "update_transaction"}
     /\ last.result = "InvalidTransaction") =>
        StorageUnchanged

C7_Witness ==
    /\ last.op = "update_transaction"
    /\ last.result = "InvalidTransaction"
    /\ last.id \in DOMAIN transactions
    /\ \E a \in DOMAIN accounts : LiveBalance(a) # 0

(***************************************************************************)
(* C8: a successful record_transaction(T) changes the live balance of each *)
(* account by exactly the net of T's entries on it (normal side adds, the  *)
(* other side subtracts); accounts T does not reference keep their balance.*)
(***************************************************************************)
C8_RecordNetEffect ==
    Succeeded("record_transaction") =>
        /\ DOMAIN accounts = DOMAIN prev.accounts
        /\ \A a \in DOMAIN accounts :
              /\ LiveBalance(a) = LiveBalanceBefore(a)
                    + NetEffect(last.txn.entries, a, accounts[a].account_type)
              /\ ~Mentions(last.txn, a) => accounts[a] = prev.accounts[a]

C8_Witness ==
    /\ Succeeded("record_transaction")
    /\ \E a, b \in DOMAIN accounts :
          /\ NetEffect(last.txn.entries, a, accounts[a].account_type) > 0
          /\ NetEffect(last.txn.entries, b, accounts[b].account_type) < 0

(***************************************************************************)
(* C9: after a successful update_transaction replacing OLD by NEW, every   *)
(* account's live balance is its balance before the call, minus the effect *)
(* of OLD's entries on it, plus the effect of NEW's entries on it, also    *)
(* for an account in both; get_transaction(id) then returns NEW.           *)
(***************************************************************************)
C9_UpdateNetEffect ==
    Succeeded("update_transaction") =>
        /\ DOMAIN accounts = DOMAIN prev.accounts
        /\ \A a \in DOMAIN accounts :
              LiveBalance(a) = LiveBalanceBefore(a)
                  - NetEffect(prev.transactions[last.id].entries, a,
                              accounts[a].account_type)
                  + NetEffect(last.txn.entries, a, accounts[a].account_type)
        /\ last.id \in DOMAIN transactions
        /\ transactions[last.id] = last.txn

C9_Witness ==
    /\ Succeeded("update_transaction")
    /\ \E a \in DOMAIN accounts :
          /\ Mentions(prev.transactions[last.id], a)
          /\ Mentions(last.txn, a)
          /\ LiveBalance(a) # LiveBalanceBefore(a)

(***************************************************************************)
(* C10: update_transaction and delete_transaction on a transaction id that *)
(* is not stored fail with TransactionNotFound and change neither the      *)
(* stored transactions nor any balance (a second delete of the same id     *)
(* reverses nothing; update never creates a transaction).                  *)
(***************************************************************************)
C10_UnknownTransaction ==
    (/\ last.op \in {"update_transaction", "delete_transaction"}
     /\ last.id \notin DOMAIN prev.transactions) =>
        /\ last.result = "TransactionNotFound"
        /\ StorageUnchanged

C10_Witness ==
    /\ last.op = "delete_transaction"
    /\ last.id \notin DOMAIN prev.transactions
    /\ last.result = "TransactionNotFound"
    /\ DOMAIN transactions # {}
    /\ \E a \in DOMAIN accounts : LiveBalance(a) # 0

(***************************************************************************)
(* The replayed balance as the specification states it: from zero, the     *)
(* signed effects of the entries on the account in the stored transactions *)
(* dated on or before the date.                                            *)
(***************************************************************************)
RECURSIVE SumNetEffects(_, _, _, _)
SumNetEffects(txns, ids, account_id, account_type) ==
    IF ids = {} THEN 0
    ELSE LET id == CHOOSE k \in ids : TRUE
         IN NetEffect(txns[id].entries, account_id, account_type)
            + SumNetEffects(txns, ids \ {id}, account_id, account_type)

ReplayedBalance(account_id, date) ==
    SumNetEffects(transactions,
                  {k \in DOMAIN transactions : transactions[k].date <= date},
                  account_id, accounts[account_id].account_type)

OptionalDates == {None} \cup {Some(d) : d \in Dates}

(***************************************************************************)
(* C11: for every existing account a and date d, get_account_balance(a,    *)
(* Some(d)) is the total, from zero, of the signed effects of exactly the  *)
(* entries on a in stored transactions dated <= d (inclusive), whatever    *)
(* the account's live running balance is.                                  *)
(***************************************************************************)
C11_BalanceAsOfDate ==
    \A a \in DOMAIN accounts, d \in Dates :
        /\ get_account_balance(accounts, transactions, a, Some(d))
              = [result |-> "Ok", balance |-> ReplayedBalance(a, d)]
        /\ \A live \in {0, accounts[a].balance + 1} :
              get_account_balance([accounts EXCEPT ![a].balance = live],
                                  transactions, a, Some(d)).balance
                  = ReplayedBalance(a, d)

C11_Witness ==
    \E a \in DOMAIN accounts, d \in Dates :
        /\ \E k \in DOMAIN transactions :
              transactions[k].date = d /\ Mentions(transactions[k], a)
        /\ ReplayedBalance(a, d) # 0
        /\ ReplayedBalance(a, d) # ReplayedBalance(a, MaxDate)
        /\ ReplayedBalance(a, d) # LiveBalance(a)

(***************************************************************************)
(* C12: get_transactions(start, end) returns exactly the stored            *)
(* transactions with start <= date <= end, both bounds inclusive, a bound  *)
(* that is absent being ignored.                                           *)
(***************************************************************************)
C12_TransactionsInRange ==
    \A start \in OptionalDates, end \in OptionalDates :
        get_transactions(transactions, start, end)
            = {transactions[k] : k \in
                 {id \in DOMAIN transactions :
                    /\ start = None \/ start[1] <= transactions[id].date
                    /\ end = None \/ transactions[id].date <= end[1]}}

C12_Witness ==
    /\ Cardinality(DOMAIN transactions) = 2
    /\ \E d \in Dates :
          Cardinality(get_transactions(transactions, Some(d), Some(d))) = 1

(***************************************************************************)
(* types.rs, utils/memory_storage.rs, ledger/core.rs: the balance sheet.   *)
(* A group of rows is a function from account id to row; the synthetic     *)
(* row is keyed by the id the code gives its account, "net_income".        *)
(***************************************************************************)
balance_amount(ab) ==
    IF ab.debit_balance # None THEN ab.debit_balance[1]
    ELSE IF ab.credit_balance # None THEN ab.credit_balance[1]
    ELSE 0

get_account_balances_by_type(accts, txns, as_of_date) ==
    LET trial_balance == get_trial_balance(accts, txns, as_of_date)
    IN  [account_type \in AccountType |->
            [id \in {k \in DOMAIN accts : accts[k].account_type = account_type}
                |-> trial_balance.balances[id]]]

RECURSIVE SumBalanceAmounts(_, _)
SumBalanceAmounts(rows, ids) ==
    IF ids = {} THEN 0
    ELSE LET id == CHOOSE k \in ids : TRUE
         IN balance_amount(rows[id]) + SumBalanceAmounts(rows, ids \ {id})

TotalOf(rows) == SumBalanceAmounts(rows, DOMAIN rows)

retained_earnings(net_income) ==
    [debit_balance |-> IF net_income < 0 THEN Some(Abs(net_income)) ELSE None,
     credit_balance |-> IF net_income > 0 THEN Some(net_income) ELSE None]

BalanceSheet(as_of_date, assets, liabilities, equity) ==
    [as_of_date |-> as_of_date, assets |-> assets,
     liabilities |-> liabilities, equity |-> equity,
     total_assets |-> TotalOf(assets), total_liabilities |-> TotalOf(liabilities),
     total_equity |-> TotalOf(equity),
     is_balanced |-> (TotalOf(assets) = TotalOf(liabilities) + TotalOf(equity))]

equity_with_net_income(equity, net_income) ==
    IF net_income # 0
    THEN map_insert(equity, "net_income", retained_earnings(net_income))
    ELSE equity

balance_sheet_from(as_of_date, balances) ==
    BalanceSheet(as_of_date, balances["Asset"], balances["Liability"],
                 equity_with_net_income(
                     balances["Equity"],
                     TotalOf(balances["Income"]) - TotalOf(balances["Expense"])))

generate_balance_sheet(accts, txns, as_of_date) ==
    balance_sheet_from(as_of_date,
                       get_account_balances_by_type(accts, txns, as_of_date))

(***************************************************************************)
(* The ledger on which transactions are only ever recorded: accounts are   *)
(* created and transactions recorded, nothing is updated or deleted.       *)
(***************************************************************************)
NextRecord ==
    \/ \E id \in AccountIdInputs, name \in NameInputs,
          account_type \in AccountType, parent_id \in ParentInputs :
            create_account(id, name, account_type, parent_id)
    \/ \E txn \in TxnInputs : record_transaction(txn)

SpecRecord == Init /\ [][NextRecord]_vars

(***************************************************************************)
(* C13: after any sequence of successfully recorded valid transactions     *)
(* over existing accounts, generate_balance_sheet(d) reports is_balanced   *)
(* for every date d: total_assets = total_liabilities + total_equity with  *)
(* net income folded into equity, negative asset balances and net losses   *)
(* included.                                                               *)
(***************************************************************************)
C13_BalanceSheetBalanced ==
    \A d \in Dates :
        LET sheet == generate_balance_sheet(accounts, transactions, d)
        IN  /\ sheet.is_balanced
            /\ sheet.total_assets = sheet.total_liabilities + sheet.total_equity

(***************************************************************************)
(* C14: with net_income = total income - total expenses, the equity        *)
(* section holds the "Net Income" row iff net_income # 0, the row is       *)
(* credit-side when net_income > 0 and debit-side when net_income < 0, and *)
(* total_equity = the equity accounts' total + net_income, so that a net   *)
(* loss lowers total_equity.                                               *)
(***************************************************************************)
C14_NetIncomeInEquity ==
    \A d \in Dates :
        LET groups == get_account_balances_by_type(accounts, transactions, d)
            sheet == generate_balance_sheet(accounts, transactions, d)
            net_income == TotalOf(groups["Income"]) - TotalOf(groups["Expense"])
            has_row == "net_income" \in DOMAIN sheet.equity
        IN  /\ has_row <=> net_income # 0
            /\ net_income > 0 =>
                  sheet.equity["net_income"] =
                     [debit_balance |-> None, credit_balance |-> Some(net_income)]
            /\ net_income < 0 =>
                  sheet.equity["net_income"] =
                     [debit_balance |-> Some(0 - net_income), credit_balance |-> None]
            /\ sheet.total_equity = TotalOf(groups["Equity"]) + net_income
            /\ net_income < 0 => sheet.total_equity < TotalOf(groups["Equity"])

(***************************************************************************)
(* ledger/core.rs: validate_integrity. An issue is the message the code    *)
(* formats: which check failed and the two totals it prints.               *)
(***************************************************************************)
integrity_issues(trial_balance, balance_sheet) ==
    (IF ~trial_balance.is_balanced
     THEN <<[issue |-> "Trial balance is not balanced",
             left |-> trial_balance.total_debits,
             right |-> trial_balance.total_credits]>>
     ELSE <<>>)
    \o
    (IF ~balance_sheet.is_balanced
     THEN <<[issue |-> "Balance sheet is not balanced",
             left |-> balance_sheet.total_assets,
             right |-> balance_sheet.total_liabilities + balance_sheet.total_equity]>>
     ELSE <<>>)

LedgerIntegrityReport(as_of_date, issues, trial_balance, balance_sheet) ==
    [as_of_date |-> as_of_date, is_valid |-> (issues = <<>>), issues |-> issues,
     trial_balance_total_debits |-> trial_balance.total_debits,
     trial_balance_total_credits |-> trial_balance.total_credits,
     balance_sheet_total_assets |-> balance_sheet.total_assets,
     balance_sheet_total_liabilities_equity |->
         balance_sheet.total_liabilities + balance_sheet.total_equity]

integrity_report(as_of_date, trial_balance, balance_sheet) ==
    LedgerIntegrityReport(as_of_date,
                          integrity_issues(trial_balance, balance_sheet),
                          trial_balance, balance_sheet)

validate_integrity_trial_balance_only(accts, txns, as_of_date) ==
    integrity_report(as_of_date,
                     get_trial_balance(accts, txns, as_of_date),
                     [generate_balance_sheet(accts, txns, as_of_date)
                         EXCEPT !.is_balanced = TRUE])

validate_integrity(accts, txns, as_of_date) ==
    integrity_report(as_of_date,
                     get_trial_balance(accts, txns, as_of_date),
                     generate_balance_sheet(accts, txns, as_of_date))

FailedChecks(d) ==
    {check \in {"trial_balance", "balance_sheet"} :
        \/ /\ check = "trial_balance"
           /\ ~get_trial_balance(accounts, transactions, d).is_balanced
        \/ /\ check = "balance_sheet"
           /\ ~generate_balance_sheet(accounts, transactions, d).is_balanced}

(***************************************************************************)
(* C15: validate_integrity(d).is_valid holds iff the trial balance and the *)
(* balance sheet as of d are both balanced; the issue list is empty        *)
(* exactly when is_valid holds, and otherwise has one issue per failed     *)
(* check.                                                                  *)
(***************************************************************************)
C15_IntegrityReport ==
    \A d \in Dates :
        LET report == validate_integrity(accounts, transactions, d)
        IN  /\ report.is_valid <=> FailedChecks(d) = {}
            /\ report.issues = <<>> <=> report.is_valid
            /\ Len(report.issues) = Cardinality(FailedChecks(d))
            /\ "trial_balance" \in FailedChecks(d) <=>
                  \E i \in 1..Len(report.issues) :
                      report.issues[i].issue = "Trial balance is not balanced"
            /\ "balance_sheet" \in FailedChecks(d) <=>
                  \E i \in 1..Len(report.issues) :
                      report.issues[i].issue = "Balance sheet is not balanced"

C15_Witness ==
    \E d \in Dates :
        /\ FailedChecks(d) = {"balance_sheet"}
        /\ ~validate_integrity(accounts, transactions, d).is_valid
        /\ Len(validate_integrity(accounts, transactions, d).issues) = 1

RECURSIVE SumOver(_, _)
SumOver(amount_of, ids) ==
    IF ids = {} THEN 0
    ELSE LET id == CHOOSE k \in ids : TRUE
         IN amount_of[id] + SumOver(amount_of, ids \ {id})

OppositeSide(side) == IF side = "Debit" THEN "Credit" ELSE "Debit"

(***************************************************************************)
(* C17: every row of get_trial_balance(d) carries exactly one of           *)
(* debit_balance / credit_balance; its amount is the absolute value of the *)
(* account's replayed balance; it is on the account's normal side when     *)
(* that balance is >= 0 and on the opposite side when it is negative;      *)
(* total_debits and total_credits are the sums of the debit-side and       *)
(* credit-side amounts over all accounts.                                  *)
(***************************************************************************)
C17_TrialBalanceRows ==
    \A d \in Dates :
        LET trial_balance == get_trial_balance(accounts, transactions, d)
            rows == trial_balance.balances
            side_of == [a \in DOMAIN accounts |->
                          IF ReplayedBalance(a, d) >= 0
                          THEN NormalSide(accounts[a].account_type)
                          ELSE OppositeSide(NormalSide(accounts[a].account_type))]
            magnitude == [a \in DOMAIN accounts |->
                            IF ReplayedBalance(a, d) < 0
                            THEN 0 - ReplayedBalance(a, d)
                            ELSE ReplayedBalance(a, d)]
            on_side(side) == {a \in DOMAIN accounts : side_of[a] = side}
        IN  /\ DOMAIN rows = DOMAIN accounts
            /\ \A a \in DOMAIN accounts :
                  /\ (rows[a].debit_balance = None) # (rows[a].credit_balance = None)
                  /\ side_of[a] = "Debit" =>
                        rows[a].debit_balance = Some(magnitude[a])
                  /\ side_of[a] = "Credit" =>
                        rows[a].credit_balance = Some(magnitude[a])
            /\ trial_balance.total_debits = SumOver(magnitude, on_side("Debit"))
            /\ trial_balance.total_credits = SumOver(magnitude, on_side("Credit"))

C17_Witness ==
    \E d \in Dates, a \in DOMAIN accounts, b \in DOMAIN accounts :
        /\ ReplayedBalance(a, d) < 0
        /\ ReplayedBalance(b, d) > 0
        /\ NormalSide(accounts[a].account_type) = "Debit"
        /\ get_trial_balance(accounts, transactions, d).balances[a].credit_balance
              = Some(0 - ReplayedBalance(a, d))

(***************************************************************************)
(* ledger/core.rs: the reporting operations of the facade. Each takes      *)
(* &self, reads the storage through its getters and returns a value.       *)
(***************************************************************************)
(***************************************************************************)
(* Text. A string of the model is a sequence of fragments, chosen so that  *)
(* every keyword the code searches for is a fragment of its own:           *)
(* str::contains is membership among the fragments, str::to_lowercase maps *)
(* each capitalised string of the model to its lower-case form.            *)
(***************************************************************************)
Fragments(text) ==
    CASE text = "fixed_assets" -> <<"fixed_", "asset", "s">>
      [] text = "accounts_payable" -> <<"accounts_", "payable">>
      [] text = "bank_loan" -> <<"bank_", "loan">>
      [] text = "owner_equity" -> <<"owner_", "equity">>
      [] text = "share_capital" -> <<"share_", "capital">>
      [] text = "equipment purchase" -> <<"equipment", " purchase">>
      [] text = "new equipment" -> <<"new ", "equipment">>
      [] text = "New Equipment" -> <<"New ", "Equipment">>
      [] OTHER -> <<text>>

contains(text, word) ==
    \E n \in 1..Len(Fragments(text)) : Fragments(text)[n] = word

to_lowercase(text) ==
    CASE text = "New Equipment" -> "new equipment"
      [] text = "Cash" -> "cash"
      [] text = "Sales" -> "sales"
      [] OTHER -> text

(* A transaction of the model that carries no description has the empty one. *)
description_of(txn) ==
    IF "description" \in DOMAIN txn THEN txn.description ELSE ""

has_asset(txn) ==
    \E n \in 1..Len(txn.entries) :
        \/ contains(txn.entries[n].account_id, "asset")
        \/ contains(txn.entries[n].account_id, "cash")

has_liability(txn) ==
    \E n \in 1..Len(txn.entries) :
        \/ contains(txn.entries[n].account_id, "payable")
        \/ contains(txn.entries[n].account_id, "loan")

has_equity(txn) ==
    \E n \in 1..Len(txn.entries) :
        \/ contains(txn.entries[n].account_id, "equity")
        \/ contains(txn.entries[n].account_id, "capital")

CashFlowItem(txn) ==
    [description |-> description_of(txn), amount |-> total_debits(txn)]

cash_flow_activity_investing_first(txn) ==
    IF has_asset(txn) /\ contains(to_lowercase(description_of(txn)), "equipment")
    THEN "investing"
    ELSE IF has_equity(txn) \/ has_liability(txn) THEN "financing"
    ELSE "operating"

cash_flow_activity(txn) ==
    IF has_equity(txn) \/ has_liability(txn) THEN "financing"
    ELSE IF has_asset(txn) /\ contains(to_lowercase(description_of(txn)), "equipment")
    THEN "investing"
    ELSE "operating"

(* The items of one bucket, keyed by the id of the transaction each came from. *)
activities(in_range, activity) ==
    [id \in {txn.id : txn \in {t \in in_range : cash_flow_activity(t) = activity}}
        |-> CashFlowItem(CHOOSE txn \in in_range : txn.id = id)]

RECURSIVE SumItems(_, _)
SumItems(items, ids) ==
    IF ids = {} THEN 0
    ELSE LET id == CHOOSE k \in ids : TRUE
         IN items[id].amount + SumItems(items, ids \ {id})

CashFlowStatement(start_date, end_date, operating, investing, financing) ==
    [start_date |-> start_date, end_date |-> end_date,
     operating_activities |-> operating,
     investing_activities |-> investing,
     financing_activities |-> financing,
     net_operating_cash_flow |-> SumItems(operating, DOMAIN operating),
     net_investing_cash_flow |-> SumItems(investing, DOMAIN investing),
     net_financing_cash_flow |-> SumItems(financing, DOMAIN financing),
     net_cash_flow |-> SumItems(operating, DOMAIN operating)
                       + SumItems(investing, DOMAIN investing)
                       + SumItems(financing, DOMAIN financing)]

cash_flow_of(start_date, end_date, in_range) ==
    CashFlowStatement(start_date, end_date,
                      activities(in_range, "operating"),
                      activities(in_range, "investing"),
                      activities(in_range, "financing"))

generate_cash_flow(txns, start_date, end_date) ==
    cash_flow_of(start_date, end_date,
                 get_transactions(txns, Some(start_date), Some(end_date)))

generate_income_statement_as_of_start(accts, txns, start_date, end_date) ==
    LET balances == get_account_balances_by_type(accts, txns, start_date)
        revenue == balances["Income"]
        expenses == balances["Expense"]
        total_revenue == TotalOf(revenue)
        total_expenses == TotalOf(expenses)
    IN  [start_date |-> start_date, end_date |-> end_date,
         revenue |-> revenue, expenses |-> expenses,
         total_revenue |-> total_revenue, total_expenses |-> total_expenses,
         net_income |-> total_revenue - total_expenses]

generate_income_statement(accts, txns, start_date, end_date) ==
    LET balances == get_account_balances_by_type(accts, txns, end_date)
        revenue == balances["Income"]
        expenses == balances["Expense"]
        total_revenue == TotalOf(revenue)
        total_expenses == TotalOf(expenses)
    IN  [start_date |-> start_date, end_date |-> end_date,
         revenue |-> revenue, expenses |-> expenses,
         total_revenue |-> total_revenue, total_expenses |-> total_expenses,
         net_income |-> total_revenue - total_expenses]

Ledger_get_account_balance_storing(account_id, as_of_date) ==
    LET answer == get_account_balance(accounts, transactions, account_id, as_of_date)
    IN  /\ Called("get_account_balance", account_id, NoTxn, answer.result)
        /\ accounts' = IF answer.result = "Ok"
                       THEN [accounts EXCEPT ![account_id].balance = answer.balance]
                       ELSE accounts
        /\ UNCHANGED transactions

Ledger_get_account_balance(account_id, as_of_date) ==
    LET answer == get_account_balance(accounts, transactions, account_id, as_of_date)
    IN  /\ Called("get_account_balance", account_id, NoTxn, answer.result)
        /\ UNCHANGED <<accounts, transactions>>

Ledger_get_trial_balance(as_of_date) ==
    LET answer == get_trial_balance(accounts, transactions, as_of_date)
    IN  /\ Called("get_trial_balance", "None", NoTxn,
                  IF answer.as_of_date = as_of_date THEN "Ok" ELSE "Storage")
        /\ UNCHANGED <<accounts, transactions>>

Ledger_generate_balance_sheet(as_of_date) ==
    LET answer == generate_balance_sheet(accounts, transactions, as_of_date)
    IN  /\ Called("generate_balance_sheet", "None", NoTxn,
                  IF answer.as_of_date = as_of_date THEN "Ok" ELSE "Storage")
        /\ UNCHANGED <<accounts, transactions>>

Ledger_generate_income_statement(start_date, end_date) ==
    LET answer == generate_income_statement(accounts, transactions,
                                            start_date, end_date)
    IN  /\ Called("generate_income_statement", "None", NoTxn,
                  IF answer.end_date = end_date THEN "Ok" ELSE "Storage")
        /\ UNCHANGED <<accounts, transactions>>

Ledger_generate_cash_flow(start_date, end_date) ==
    LET answer == generate_cash_flow(transactions, start_date, end_date)
    IN  /\ Called("generate_cash_flow", "None", NoTxn,
                  IF answer.end_date = end_date THEN "Ok" ELSE "Storage")
        /\ UNCHANGED <<accounts, transactions>>

Ledger_validate_integrity(as_of_date) ==
    LET answer == validate_integrity(accounts, transactions, as_of_date)
    IN  /\ Called("validate_integrity", "None", NoTxn,
                  IF answer.as_of_date = as_of_date THEN "Ok" ELSE "Storage")
        /\ UNCHANGED <<accounts, transactions>>

ReadOps == {"validate_integrity", "get_trial_balance", "generate_balance_sheet",
            "generate_income_statement", "generate_cash_flow",
            "get_account_balance"}

NextReads ==
    \/ Next
    \/ \E account_id \in AccountIds, as_of_date \in OptionalDates :
          Ledger_get_account_balance(account_id, as_of_date)
    \/ \E as_of_date \in Dates : Ledger_get_trial_balance(as_of_date)
    \/ \E as_of_date \in Dates : Ledger_generate_balance_sheet(as_of_date)
    \/ \E start_date \in Dates, end_date \in Dates :
          Ledger_generate_income_statement(start_date, end_date)
    \/ \E start_date \in Dates, end_date \in Dates :
          Ledger_generate_cash_flow(start_date, end_date)
    \/ \E as_of_date \in Dates : Ledger_validate_integrity(as_of_date)

SpecReads == Init /\ [][NextReads]_vars

(***************************************************************************)
(* C16: validate_integrity, get_trial_balance, generate_balance_sheet,     *)
(* generate_income_statement, generate_cash_flow and get_account_balance   *)
(* have no mutating side effect: the stored accounts, balances included,   *)
(* and the stored transactions are the same after the call as before it.   *)
(***************************************************************************)
C16_ReadsDoNotMutate ==
    last.op \in ReadOps => StorageUnchanged

C16_Witness ==
    /\ last.op = "get_account_balance"
    /\ last.result = "Ok"
    /\ \E d \in Dates : ReplayedBalance(last.id, d) # LiveBalance(last.id)
    /\ transactions # EmptyMap

(***************************************************************************)
(* ledger/account.rs: AccountManager::update_account and delete_account,   *)
(* with the default validator.                                             *)
(***************************************************************************)
update_account_result(account) ==
    IF validate_account(account) # "Ok" THEN validate_account(account)
    ELSE IF account.id \notin DOMAIN accounts THEN "AccountNotFound"
    ELSE "Ok"

AccountArgOf(account) ==
    [well_formed |-> validate_account(account) = "Ok",
     accounts_known |-> account.id \in DOMAIN accounts,
     first_known |-> FALSE]

CalledOnAccount(op, account, result) ==
    /\ nops < MaxOps
    /\ nops' = nops + 1
    /\ last' = [op |-> op, id |-> account.id, result |-> result,
                txn |-> NoTxn, arg |-> AccountArgOf(account)]
    /\ prev' = [accounts |-> accounts, transactions |-> transactions]
    /\ pre_record' = NoPreRecord
    /\ UNCHANGED tasks

update_account_inserting(account) ==
    LET result == IF validate_account(account) # "Ok"
                  THEN validate_account(account) ELSE "Ok"
    IN  /\ CalledOnAccount("update_account", account, result)
        /\ accounts' = IF result = "Ok"
                       THEN save_account(accounts, account)
                       ELSE accounts
        /\ UNCHANGED transactions

update_account(account) ==
    LET result == update_account_result(account)
    IN  /\ CalledOnAccount("update_account", account, result)
        /\ accounts' = IF result = "Ok"
                       THEN storage_update_account(accounts, account)
                       ELSE accounts
        /\ UNCHANGED transactions

delete_account_result(account_id) ==
    IF validate_account_deletion(account_id) # "Ok"
    THEN validate_account_deletion(account_id)
    ELSE storage_delete_account(accounts, account_id).result

delete_account(account_id) ==
    LET result == delete_account_result(account_id)
    IN  /\ Called("delete_account", account_id, NoTxn, result)
        /\ accounts' = IF result = "Ok"
                       THEN storage_delete_account(accounts, account_id).accounts
                       ELSE accounts
        /\ UNCHANGED transactions

(***************************************************************************)
(* The account registry with its whole input space: blank ids and names,   *)
(* parents, and account values passed to update_account.                   *)
(***************************************************************************)
RegistryIdInputs == AccountIds \cup BlankStrings
RegistryNameInputs == {"Cash"} \cup BlankStrings
RegistryParentInputs == {NoParent} \cup AccountIds
RegistryTypeInputs == {"Asset", "Income"}

AccountInputs ==
    [id : RegistryIdInputs, name : RegistryNameInputs,
     account_type : RegistryTypeInputs, parent_id : RegistryParentInputs,
     balance : Amounts]

NextHierarchy ==
    \/ \E id \in RegistryIdInputs, name \in RegistryNameInputs,
          account_type \in RegistryTypeInputs, parent_id \in RegistryParentInputs :
            create_account(id, name, account_type, parent_id)
    \/ \E account \in AccountInputs : update_account(account)
    \/ \E account_id \in AccountIds : delete_account(account_id)

SpecHierarchy == Init /\ [][NextHierarchy]_vars

NextAccounts ==
    \/ NextHierarchy
    \/ \E txn \in TxnInputs : record_transaction(txn)

SpecAccounts == Init /\ [][NextAccounts]_vars

(***************************************************************************)
(* C18: create_account fails, leaving the stored accounts unchanged, when  *)
(* the id already exists (the existing account and its balance are not     *)
(* overwritten), when parent_id is set but names no existing account, or   *)
(* when id or name is empty or blank; on success the new account is stored *)
(* with balance zero.  Stated on the outcome: a failed call changes        *)
(* nothing, and a call succeeds only when none of the three conditions     *)
(* held, adding exactly the new account.                                   *)
(***************************************************************************)
C18_CreateAccountChecks ==
    last.op = "create_account" =>
        IF last.result = "Ok"
        THEN /\ last.id \notin DOMAIN prev.accounts
             /\ last.id # "" /\ last.id # " "
             /\ DOMAIN accounts = DOMAIN prev.accounts \cup {last.id}
             /\ \A a \in DOMAIN prev.accounts : accounts[a] = prev.accounts[a]
             /\ accounts[last.id].id = last.id
             /\ accounts[last.id].name # "" /\ accounts[last.id].name # " "
             /\ \/ accounts[last.id].parent_id = NoParent
                \/ accounts[last.id].parent_id \in DOMAIN prev.accounts
             /\ accounts[last.id].balance = 0
             /\ transactions = prev.transactions
        ELSE StorageUnchanged

C18_Witness ==
    /\ last.op = "create_account"
    /\ last.result = "Validation"
    /\ last.id \in DOMAIN accounts
    /\ accounts[last.id].balance # 0
    /\ \E a \in DOMAIN accounts :
          accounts[a].parent_id \in DOMAIN accounts \ {a}

(***************************************************************************)
(* C19: an account is never deleted while a transaction references it: in  *)
(* every reachable state, every account id in an entry of a stored         *)
(* transaction resolves to an existing account.                            *)
(***************************************************************************)
C19_ReferencedAccountsExist ==
    \A k \in DOMAIN transactions :
        \A i \in 1..Len(transactions[k].entries) :
            transactions[k].entries[i].account_id \in DOMAIN accounts

(***************************************************************************)
(* C20: after any sequence of create_account, update_account and           *)
(* delete_account, every stored account whose parent_id is set references  *)
(* an existing account.                                                    *)
(***************************************************************************)
C20_ParentsExist ==
    \A a \in DOMAIN accounts :
        accounts[a].parent_id # NoParent =>
            accounts[a].parent_id \in DOMAIN accounts

(***************************************************************************)
(* ledger/account.rs: AccountManager::with_validator. A pluggable          *)
(* AccountValidator whose validate_account is the default one and whose    *)
(* validate_account_deletion rejects the ids in RejectedDeletions.         *)
(***************************************************************************)
RejectedDeletions == {"a1"}

rejecting_validate_account_deletion(account_id) ==
    IF account_id \in RejectedDeletions THEN "Validation" ELSE "Ok"

delete_account_with_validator_result(account_id) ==
    IF rejecting_validate_account_deletion(account_id) # "Ok"
    THEN rejecting_validate_account_deletion(account_id)
    ELSE storage_delete_account(accounts, account_id).result

delete_account_with_validator_unchecked(account_id) ==
    LET result == storage_delete_account(accounts, account_id).result
    IN  /\ Called("delete_account", account_id, NoTxn, result)
        /\ accounts' = storage_delete_account(accounts, account_id).accounts
        /\ UNCHANGED transactions

delete_account_with_validator(account_id) ==
    LET result == delete_account_with_validator_result(account_id)
    IN  /\ Called("delete_account", account_id, NoTxn, result)
        /\ accounts' = IF result = "Ok"
                       THEN storage_delete_account(accounts, account_id).accounts
                       ELSE accounts
        /\ UNCHANGED transactions

NextValidated ==
    \/ \E id \in RegistryIdInputs, name \in RegistryNameInputs,
          account_type \in RegistryTypeInputs, parent_id \in RegistryParentInputs :
            create_account(id, name, account_type, parent_id)
    \/ \E account \in AccountInputs : update_account(account)
    \/ \E account_id \in AccountIds : delete_account_with_validator(account_id)

SpecValidated == Init /\ [][NextValidated]_vars

(***************************************************************************)
(* C21 as stated: update_account and delete_account on an account id that  *)
(* does not exist fail with AccountNotFound and leave the stored accounts  *)
(* unchanged; delete_account with a deletion validator that rejects the id *)
(* fails and the account remains stored.                                   *)
(***************************************************************************)
C21_UnknownAccountNotFound ==
    /\ (last.op \in {"update_account", "delete_account"}
        /\ last.id \notin DOMAIN prev.accounts)
          => (last.result = "AccountNotFound" /\ StorageUnchanged)
    /\ (last.op = "delete_account" /\ last.id \in RejectedDeletions)
          => (last.result # "Ok" /\ StorageUnchanged)

(***************************************************************************)
(* C21 amended: update_account and delete_account on an account id that    *)
(* does not exist fail and leave the stored accounts unchanged (update     *)
(* never creates an account); the error is AccountNotFound when the        *)
(* validator accepts the call, and the validator's own error (Validation   *)
(* for an account value with a blank id or name, or the deletion           *)
(* validator's rejection) when it does not, since the validator runs       *)
(* first. delete_account with a deletion validator that rejects the id     *)
(* fails and the account remains stored.                                   *)
(***************************************************************************)
C21_UnknownAccountFails ==
    /\ (last.op = "update_account" /\ last.id \notin DOMAIN prev.accounts)
          => /\ last.result = IF last.arg.well_formed
                              THEN "AccountNotFound" ELSE "Validation"
             /\ StorageUnchanged
    /\ (last.op = "delete_account" /\ last.id \notin DOMAIN prev.accounts)
          => /\ last.result = IF last.id \in RejectedDeletions
                              THEN "Validation" ELSE "AccountNotFound"
             /\ StorageUnchanged
    /\ (last.op = "delete_account" /\ last.id \in RejectedDeletions)
          => /\ last.result # "Ok"
             /\ StorageUnchanged
             /\ last.id \in DOMAIN prev.accounts => last.id \in DOMAIN accounts

C21_Witness ==
    /\ last.op = "update_account"
    /\ last.arg.well_formed
    /\ last.id \notin DOMAIN accounts
    /\ last.result = "AccountNotFound"
    /\ RejectedDeletions \cap DOMAIN accounts # {}

(***************************************************************************)
(* ledger/transaction.rs and utils/memory_storage.rs, lock by lock. Every  *)
(* storage call takes its RwLock, reads or writes, and releases it, so a   *)
(* call of another Ledger instance sharing the storage can run between any *)
(* two of them. One step below is one lock acquisition together with the   *)
(* local computation that follows it. MemoryStorage::update_account takes  *)
(* the read lock for contains_key and then the write lock for insert: two  *)
(* steps. A task keeps the call's locals: the argument (txn), the          *)
(* transaction read by get_transaction_required (old), the loop it is in   *)
(* (phase), the index of the entry (i) and the account it read (account).  *)
(***************************************************************************)
PhaseEntries(task) ==
    IF task.phase = "reverse" THEN task.old.entries ELSE task.txn.entries

PhaseEntryType(task, entry) ==
    IF task.phase = "reverse" THEN reverse_type(entry.entry_type)
    ELSE entry.entry_type

Returned(task, result) ==
    [task EXCEPT !.pc = "done", !.result = result, !.account = None]

next_entry(task) ==
    IF task.i < Len(PhaseEntries(task))
    THEN [task EXCEPT !.i = task.i + 1, !.pc = "get", !.account = None]
    ELSE IF task.op = "update_transaction" /\ task.phase = "reverse"
    THEN [task EXCEPT !.phase = "apply", !.i = 1, !.pc = "get", !.account = None]
    ELSE IF task.op = "update_transaction"
    THEN [task EXCEPT !.pc = "persist", !.account = None]
    ELSE Returned(task, "Ok")

Step(ledger, task) ==
    /\ tasks' = [tasks EXCEPT ![ledger] = task]
    /\ UNCHANGED <<last, prev, pre_record, nops>>

begin_record_transaction(ledger, txn) ==
    LET result == record_transaction_result_without_lookup(txn)
    IN  /\ tasks[ledger].pc = "idle"
        /\ Step(ledger,
                IF result # "Ok"
                THEN Returned([IdleTask EXCEPT !.op = "record_transaction"], result)
                ELSE [IdleTask EXCEPT !.op = "record_transaction", !.txn = txn,
                                      !.phase = "apply", !.i = 1, !.pc = "check"])
        /\ UNCHANGED <<accounts, transactions>>

check_account(ledger) ==
    LET task == tasks[ledger]
        entry == task.txn.entries[task.i]
    IN  /\ task.pc = "check"
        /\ Step(ledger,
                IF entry.account_id \notin DOMAIN accounts
                THEN Returned(task, "AccountNotFound")
                ELSE IF task.i < Len(task.txn.entries)
                THEN [task EXCEPT !.i = task.i + 1]
                ELSE [task EXCEPT !.pc = "save"])
        /\ UNCHANGED <<accounts, transactions>>

save_transaction_step(ledger) ==
    LET task == tasks[ledger]
    IN  /\ task.pc = "save"
        /\ transactions' = save_transaction(transactions, task.txn)
        /\ Step(ledger, [task EXCEPT !.pc = "get", !.i = 1])
        /\ UNCHANGED accounts

get_account_step(ledger) ==
    LET task == tasks[ledger]
        entry == PhaseEntries(task)[task.i]
    IN  /\ task.pc = "get"
        /\ Step(ledger,
                IF entry.account_id \in DOMAIN accounts
                THEN [task EXCEPT
                        !.pc = "update_account",
                        !.account = Some(apply_entry(accounts[entry.account_id],
                                                     PhaseEntryType(task, entry),
                                                     entry.amount))]
                ELSE next_entry(task))
        /\ UNCHANGED <<accounts, transactions>>

update_account_contains_key(ledger) ==
    LET task == tasks[ledger]
    IN  /\ task.pc = "update_account"
        /\ Step(ledger,
                IF task.account[1].id \in DOMAIN accounts
                THEN [task EXCEPT !.pc = "insert"]
                ELSE Returned(task, "AccountNotFound"))
        /\ UNCHANGED <<accounts, transactions>>

update_account_insert(ledger) ==
    LET task == tasks[ledger]
    IN  /\ task.pc = "insert"
        /\ accounts' = map_insert(accounts, task.account[1].id, task.account[1])
        /\ Step(ledger, next_entry(task))
        /\ UNCHANGED transactions

begin_update_transaction_persisting(ledger, txn) ==
    LET result == update_transaction_result(txn)
    IN  /\ tasks[ledger].pc = "idle"
        /\ Step(ledger,
                IF result # "Ok"
                THEN Returned([IdleTask EXCEPT !.op = "update_transaction"], result)
                ELSE [IdleTask EXCEPT !.op = "update_transaction", !.txn = txn,
                                      !.old = transactions[txn.id],
                                      !.phase = "reverse", !.i = 1, !.pc = "get"])
        /\ transactions' = IF result = "Ok"
                           THEN storage_update_transaction(transactions, txn).transactions
                           ELSE transactions
        /\ UNCHANGED accounts

begin_update_transaction(ledger, txn) ==
    LET result == update_transaction_result(txn)
    IN  /\ tasks[ledger].pc = "idle"
        /\ Step(ledger,
                IF result # "Ok"
                THEN Returned([IdleTask EXCEPT !.op = "update_transaction"], result)
                ELSE [IdleTask EXCEPT !.op = "update_transaction", !.txn = txn,
                                      !.old = transactions[txn.id],
                                      !.phase = "reverse", !.i = 1, !.pc = "get"])
        /\ UNCHANGED <<accounts, transactions>>

update_transaction_persist(ledger) ==
    LET task == tasks[ledger]
        stored == storage_update_transaction(transactions, task.txn)
    IN  /\ task.pc = "persist"
        /\ transactions' = stored.transactions
        /\ Step(ledger, Returned(task, stored.result))
        /\ UNCHANGED accounts

delete_account_step(ledger, account_id) ==
    LET result == delete_account_result(account_id)
    IN  /\ tasks[ledger].pc = "idle"
        /\ accounts' = IF result = "Ok"
                       THEN storage_delete_account(accounts, account_id).accounts
                       ELSE accounts
        /\ Step(ledger, Returned([IdleTask EXCEPT !.op = "delete_account"], result))
        /\ UNCHANGED transactions

(***************************************************************************)
(* Starting points: two accounts created, and optionally one transaction   *)
(* recorded on them.                                                       *)
(***************************************************************************)
SeedAccounts ==
    {[a1 |-> Account_new("a1", "Cash", "Asset", NoParent),
      a2 |-> Account_new("a2", "Sales", account_type, NoParent)] :
        account_type \in {"Asset", "Income"}}

SeedTransaction ==
    [id |-> "t1", date |-> MaxDate,
     entries |-> <<[account_id |-> "a1", entry_type |-> "Debit", amount |-> MaxAmount],
                   [account_id |-> "a2", entry_type |-> "Credit", amount |-> MaxAmount]>>]

InitWith(accts, txns) ==
    /\ tasks = [ledger \in Ledgers |-> IdleTask]
    /\ accounts = accts
    /\ transactions = txns
    /\ last = [op |-> "new", id |-> "None", result |-> "Ok", txn |-> NoTxn,
               arg |-> NoArg]
    /\ prev = [accounts |-> accts, transactions |-> txns]
    /\ pre_record = NoPreRecord
    /\ nops = 0

InitAccounts == \E accts \in SeedAccounts : InitWith(accts, EmptyMap)

InitRecorded ==
    \E accts \in SeedAccounts :
        InitWith(post_entries(accts, SeedTransaction.entries),
                 save_transaction(EmptyMap, SeedTransaction))

(***************************************************************************)
(* Two Ledger instances over one MemoryStorage, each recording one         *)
(* transaction.                                                            *)
(***************************************************************************)
NextConcurrentRecord ==
    \E ledger \in Ledgers :
        \/ \E txn \in TxnInputs : begin_record_transaction(ledger, txn)
        \/ check_account(ledger)
        \/ save_transaction_step(ledger)
        \/ get_account_step(ledger)
        \/ update_account_contains_key(ledger)
        \/ update_account_insert(ledger)

SpecConcurrentRecord == InitAccounts /\ [][NextConcurrentRecord]_vars

(***************************************************************************)
(* C22: when two record_transaction operations run concurrently through    *)
(* two Ledger instances sharing one MemoryStorage, every account's final   *)
(* live balance reflects both postings, in every interleaving.             *)
(***************************************************************************)
C22_NoLostUpdate ==
    (\A ledger \in Ledgers :
        /\ tasks[ledger].op = "record_transaction"
        /\ tasks[ledger].pc = "done"
        /\ tasks[ledger].result = "Ok")
    => \A a \in DOMAIN accounts :
          accounts[a].balance =
              prev.accounts[a].balance
              + NetEffect(tasks["L1"].txn.entries, a, accounts[a].account_type)
              + NetEffect(tasks["L2"].txn.entries, a, accounts[a].account_type)

(***************************************************************************)
(* C23: generate_income_statement(start, end) evaluates balances only as   *)
(* of end: for any two start dates and the same ledger state the revenue   *)
(* rows, expense rows, total_revenue, total_expenses and net_income are    *)
(* identical, and net_income = total_revenue - total_expenses.             *)
(***************************************************************************)
C23_IncomeStatementIgnoresStart ==
    \A s1 \in Dates, s2 \in Dates, end \in Dates :
        LET first == generate_income_statement(accounts, transactions, s1, end)
            second == generate_income_statement(accounts, transactions, s2, end)
            as_of_end == get_trial_balance(accounts, transactions, end).balances
        IN  /\ first.revenue = second.revenue
            /\ first.expenses = second.expenses
            /\ first.total_revenue = second.total_revenue
            /\ first.total_expenses = second.total_expenses
            /\ first.net_income = second.net_income
            /\ first.net_income = first.total_revenue - first.total_expenses
            /\ \A a \in DOMAIN first.revenue : first.revenue[a] = as_of_end[a]
            /\ \A a \in DOMAIN first.expenses : first.expenses[a] = as_of_end[a]

C23_Witness ==
    /\ \A k \in DOMAIN transactions : transactions[k].date < MaxDate
    /\ generate_income_statement(accounts, transactions, MaxDate, MaxDate).net_income # 0

(***************************************************************************)
(* Cash flow statement. The ledger starts with accounts whose ids carry    *)
(* the keywords generate_cash_flow looks for (create_account accepts each  *)
(* of them), and records described transactions against them.              *)
(***************************************************************************)
CashFlowAccountTypes ==
    [cash |-> "Asset", Cash |-> "Asset", fixed_assets |-> "Asset",
     accounts_payable |-> "Liability", bank_loan |-> "Liability",
     owner_equity |-> "Equity", share_capital |-> "Equity", sales |-> "Income"]

CashFlowAccounts ==
    [id \in DOMAIN CashFlowAccountTypes |->
        Account_new(id, id, CashFlowAccountTypes[id], NoParent)]

Descriptions == {"sale", "equipment purchase", "New Equipment"}

CashFlowTxnInputs ==
    {[id |-> id, date |-> date, description |-> description,
      entries |-> <<[account_id |-> debited, entry_type |-> "Debit",
                     amount |-> MaxAmount],
                    [account_id |-> credited, entry_type |-> "Credit",
                     amount |-> MaxAmount]>>] :
        id \in TxnIds, date \in Dates, description \in Descriptions,
        debited \in DOMAIN CashFlowAccountTypes,
        credited \in {"sales", "bank_loan"}}

(* The ledger after record_transaction of the given transactions, each     *)
(* under its own id (NoTxn stands for none).                                *)
Recorded(first, second) ==
    [id \in {txn.id : txn \in {first, second} \ {NoTxn}} |->
        IF id = first.id THEN first ELSE second]

InitCashFlow ==
    \E first \in {txn \in CashFlowTxnInputs : txn.id = "t1"} \cup {NoTxn},
       second \in {txn \in CashFlowTxnInputs : txn.id = "t2"} \cup {NoTxn} :
        InitWith(post_entries(post_entries(CashFlowAccounts, first.entries),
                              second.entries),
                 Recorded(first, second))

NextCashFlow ==
    \E start_date \in Dates, end_date \in Dates :
        Ledger_generate_cash_flow(start_date, end_date)

SpecCashFlow == InitCashFlow /\ [][NextCashFlow]_vars

InRange(start_date, end_date) ==
    {transactions[k] : k \in {j \in DOMAIN transactions :
        /\ transactions[j].date >= start_date
        /\ transactions[j].date <= end_date}}

Financing(txn) ==
    \E n \in 1..Len(txn.entries), word \in {"payable", "loan", "equity", "capital"} :
        contains(txn.entries[n].account_id, word)

AssetOrCash(txn) ==
    \E n \in 1..Len(txn.entries), word \in {"asset", "cash"} :
        contains(txn.entries[n].account_id, word)

(* The bucket the statement is expected to file txn under, given whether    *)
(* its description counts as naming equipment.                              *)
ExpectedBucket(txn, names_equipment) ==
    IF Financing(txn) THEN "financing"
    ELSE IF AssetOrCash(txn) /\ names_equipment THEN "investing"
    ELSE "operating"

BucketOf(statement, id) ==
    {bucket \in {"operating", "investing", "financing"} :
        id \in DOMAIN (CASE bucket = "operating" -> statement.operating_activities
                         [] bucket = "investing" -> statement.investing_activities
                         [] bucket = "financing" -> statement.financing_activities)}

ItemAmounts(items) == [id \in DOMAIN items |-> items[id].amount]

BucketTotals(statement) ==
    SumOver(ItemAmounts(statement.operating_activities),
            DOMAIN statement.operating_activities)
    + SumOver(ItemAmounts(statement.investing_activities),
              DOMAIN statement.investing_activities)
    + SumOver(ItemAmounts(statement.financing_activities),
              DOMAIN statement.financing_activities)

(* C24, as stated: generate_cash_flow(start, end) files every stored       *)
(* transaction dated within [start, end] under exactly one bucket:         *)
(* financing when an entry's account id contains "payable", "loan",        *)
(* "equity" or "capital"; otherwise investing when an account id contains  *)
(* "asset" or "cash" and the description contains "equipment"; otherwise   *)
(* operating; and net_cash_flow is the sum of the three bucket totals.     *)
C24_CashFlowBuckets ==
    \A start_date \in Dates, end_date \in Dates :
        last.op = "generate_cash_flow" =>
        LET statement == generate_cash_flow(transactions, start_date, end_date)
        IN  /\ \A txn \in InRange(start_date, end_date) :
                  BucketOf(statement, txn.id) =
                      {ExpectedBucket(txn, contains(txn.description, "equipment"))}
            /\ \A id \in DOMAIN transactions :
                  transactions[id] \notin InRange(start_date, end_date)
                      => BucketOf(statement, id) = {}
            /\ statement.net_cash_flow = BucketTotals(statement)

(* C24, amended: the same, with the description compared after it is       *)
(* lower-cased (account ids are compared as they are written); each item   *)
(* carries the transaction's description and its total of debits.          *)
C24_CashFlowBucketsLowercased ==
    \A start_date \in Dates, end_date \in Dates :
        last.op = "generate_cash_flow" =>
        LET statement == generate_cash_flow(transactions, start_date, end_date)
        IN  /\ \A txn \in InRange(start_date, end_date) :
                  BucketOf(statement, txn.id) =
                      {ExpectedBucket(txn, contains(to_lowercase(txn.description),
                                                    "equipment"))}
            /\ \A id \in DOMAIN transactions :
                  transactions[id] \notin InRange(start_date, end_date)
                      => BucketOf(statement, id) = {}
            /\ statement.net_cash_flow = BucketTotals(statement)

C24_Witness ==
    /\ last.op = "generate_cash_flow"
    /\ LET statement == generate_cash_flow(transactions, MaxDate, MaxDate)
       IN  /\ \E id \in DOMAIN statement.investing_activities :
                 transactions[id].description = "New Equipment"
           /\ \E id \in DOMAIN transactions : transactions[id].date < MaxDate

(***************************************************************************)
(* utils/validation.rs: EnhancedTransactionValidator, installed with       *)
(* Ledger::with_validators.                                                 *)
(***************************************************************************)
(* Ids of the model with a character that is not alphanumeric, '-' or '_'. *)
MalformedIds == {"a 1"}

validate_positive_amount(amount) ==
    IF amount <= 0 THEN "Validation" ELSE "Ok"

validate_account_id(account_id) ==
    IF trim(account_id) = "" THEN "Validation"
    ELSE IF account_id \in MalformedIds THEN "Validation"
    ELSE "Ok"

validate_transaction_description(description) ==
    IF trim(description) = "" THEN "Validation" ELSE "Ok"

(* HashSet::insert returns false for a combination that an earlier entry   *)
(* already put in the set.                                                 *)
account_entry_combinations_never_repeated(entries) == FALSE

account_entry_combinations_repeated(entries) ==
    \E i \in 1..Len(entries), j \in 1..Len(entries) :
        /\ i < j
        /\ entries[i].account_id = entries[j].account_id
        /\ entries[i].entry_type = entries[j].entry_type

Enhanced_validate_transaction(txn) ==
    IF validate(txn) # "Ok" THEN validate(txn)
    ELSE IF validate_transaction_description(description_of(txn)) # "Ok"
         THEN "Validation"
    ELSE IF \E i \in 1..Len(txn.entries) :
               \/ validate_account_id(txn.entries[i].account_id) # "Ok"
               \/ validate_positive_amount(txn.entries[i].amount) # "Ok"
         THEN "Validation"
    ELSE IF account_entry_combinations_repeated(txn.entries) THEN "Validation"
    ELSE "Ok"

Enhanced_validate_account_references(txn) == "Ok"

(* What a call was given, recorded whether or not the call accepted it.    *)
EnhancedArgOf(txn) ==
    [well_formed |-> WellFormed(txn),
     accounts_known |-> accounts_exist(accounts, txn),
     first_known |-> /\ Len(txn.entries) >= 1
                     /\ txn.entries[1].account_id \in DOMAIN accounts,
     described |-> validate_transaction_description(description_of(txn)) = "Ok",
     repeated |-> Cardinality({<<txn.entries[i].account_id,
                                  txn.entries[i].entry_type>> :
                                    i \in 1..Len(txn.entries)})
                  < Len(txn.entries),
     both_sides |-> \E i \in 1..Len(txn.entries), j \in 1..Len(txn.entries) :
                       /\ txn.entries[i].account_id = txn.entries[j].account_id
                       /\ txn.entries[i].entry_type # txn.entries[j].entry_type,
     stored |-> txn.id \in DOMAIN transactions]

CalledEnhanced(op, txn, result) ==
    /\ nops < MaxOps
    /\ nops' = nops + 1
    /\ last' = [op |-> op, id |-> txn.id, result |-> result,
                txn |-> IF result = "Ok" THEN txn ELSE NoTxn,
                arg |-> EnhancedArgOf(txn)]
    /\ prev' = [accounts |-> accounts, transactions |-> transactions]
    /\ pre_record' = NoPreRecord
    /\ UNCHANGED tasks

Enhanced_record_transaction_result(txn) ==
    IF Enhanced_validate_transaction(txn) # "Ok"
    THEN Enhanced_validate_transaction(txn)
    ELSE IF Enhanced_validate_account_references(txn) # "Ok"
         THEN Enhanced_validate_account_references(txn)
    ELSE IF ~accounts_exist(accounts, txn) THEN "AccountNotFound"
    ELSE "Ok"

Enhanced_record_transaction(txn) ==
    LET result == Enhanced_record_transaction_result(txn)
    IN  /\ CalledEnhanced("record_transaction", txn, result)
        /\ IF result = "Ok"
           THEN /\ transactions' = save_transaction(transactions, txn)
                /\ accounts' = post_entries(accounts, txn.entries)
           ELSE UNCHANGED <<accounts, transactions>>

Enhanced_update_transaction_result(txn) ==
    IF txn.id \notin DOMAIN transactions THEN "TransactionNotFound"
    ELSE IF Enhanced_validate_transaction(txn) # "Ok"
         THEN Enhanced_validate_transaction(txn)
    ELSE IF Enhanced_validate_account_references(txn) # "Ok"
         THEN Enhanced_validate_account_references(txn)
    ELSE "Ok"

Enhanced_update_transaction(txn) ==
    LET result == Enhanced_update_transaction_result(txn)
    IN  /\ CalledEnhanced("update_transaction", txn, result)
        /\ IF result = "Ok"
           THEN /\ accounts' = post_entries(
                                  reverse_entries(accounts,
                                                  transactions[txn.id].entries),
                                  txn.entries)
                /\ transactions' =
                      storage_update_transaction(transactions, txn).transactions
           ELSE UNCHANGED <<accounts, transactions>>

Posting(account_id, entry_type) ==
    [account_id |-> account_id, entry_type |-> entry_type, amount |-> MaxAmount]

EnhancedEntrySeqs ==
    {<<Posting("a1", "Debit"), Posting("a2", "Credit")>>,
     <<Posting("a1", "Debit"), Posting("a1", "Credit")>>,
     <<Posting("a1", "Debit"), Posting("a1", "Debit")>>,
     <<Posting("a1", "Debit"), Posting("a1", "Debit"),
       Posting("a2", "Credit"), Posting("a1", "Credit")>>,
     <<Posting("a1", "Debit"), Posting("a2", "Debit"),
       Posting("a2", "Credit"), Posting("a1", "Credit")>>}

EnhancedTxnInputs ==
    [id : TxnIds, date : {MaxDate}, description : {"sale", " "},
     entries : EnhancedEntrySeqs]

NextEnhanced ==
    \/ \E txn \in EnhancedTxnInputs : Enhanced_record_transaction(txn)
    \/ \E txn \in EnhancedTxnInputs : Enhanced_update_transaction(txn)

SpecEnhanced == InitAccounts /\ [][NextEnhanced]_vars

(* C25: with EnhancedTransactionValidator installed, record_transaction    *)
(* and update_transaction reject every transaction in which one account id *)
(* occurs in two entries of the same entry type, and leave accounts and    *)
(* transactions as they were; a transaction that names an account once as  *)
(* Debit and once as Credit, and is otherwise acceptable, is accepted.     *)
C25_RepeatedCombinationRejected ==
    last.op \in {"record_transaction", "update_transaction"} =>
        /\ last.arg.repeated =>
              /\ last.result # "Ok"
              /\ accounts = prev.accounts
              /\ transactions = prev.transactions
        /\ (/\ last.arg.both_sides
            /\ ~last.arg.repeated
            /\ last.arg.well_formed
            /\ last.arg.described
            /\ last.arg.accounts_known
            /\ (last.op = "update_transaction" => last.arg.stored))
              => last.result = "Ok"

C25_Witness ==
    /\ last.op = "record_transaction"
    /\ last.arg.repeated
    /\ last.arg.well_formed
    /\ last.arg.described
    /\ last.result = "Validation"
    /\ \E id \in DOMAIN transactions :
          \E i \in 1..2 :
              /\ transactions[id].entries[i].account_id = "a1"
              /\ transactions[id].entries[i].entry_type = "Credit"
              /\ transactions[id].entries[3 - i].account_id = "a1"

(* The parts of C26 that do not depend on the kind reported for a malformed *)
(* transaction.                                                             *)
OtherErrorKinds ==
    /\ (/\ last.op = "create_account"
        /\ \/ trim(last.id) = ""
           \/ last.result # "Ok" /\ last.id \notin DOMAIN prev.accounts)
          => last.result = "Validation"
    /\ (/\ last.op = "record_transaction"
        /\ last.arg.well_formed
        /\ ~last.arg.accounts_known)
          => last.result = "AccountNotFound"
    /\ (/\ last.op \in {"update_transaction", "delete_transaction"}
        /\ last.id \notin DOMAIN prev.transactions)
          => last.result = "TransactionNotFound"

(* C26, as stated: record_transaction of a transaction that is unbalanced, *)
(* has fewer than two entries or has a non-positive amount fails with the  *)
(* kind Validation, the kind create_account returns for an empty id or     *)
(* name; a missing account yields AccountNotFound and a missing            *)
(* transaction yields TransactionNotFound.                                 *)
C26_MalformedIsValidation ==
    /\ (last.op = "record_transaction" /\ ~last.arg.well_formed)
          => last.result = "Validation"
    /\ OtherErrorKinds

(* C26, amended: a malformed transaction fails with the kind               *)
(* InvalidTransaction, which create_account never returns; create_account  *)
(* returns Validation for an empty id or name; a missing account yields    *)
(* AccountNotFound and a missing transaction yields TransactionNotFound.   *)
C26_MalformedIsInvalidTransaction ==
    /\ (/\ last.op \in {"record_transaction", "update_transaction"}
        /\ ~last.arg.well_formed
        /\ (last.op = "update_transaction" => last.id \in DOMAIN prev.transactions))
          => last.result = "InvalidTransaction"
    /\ last.op = "create_account" => last.result # "InvalidTransaction"
    /\ OtherErrorKinds

C26_Witness ==
    /\ last.op = "record_transaction"
    /\ ~last.arg.well_formed
    /\ last.arg.accounts_known
    /\ last.result = "InvalidTransaction"
    /\ transactions # EmptyMap

(***************************************************************************)
(* tax/gst.rs: GstRate and GstCalculation. A BigDecimal d is the integer   *)
(* d * Scale; with whole base amounts and whole percentages every product  *)
(* and every quotient the calculation forms is a whole number of units, so *)
(* the arithmetic is exact, as BigDecimal's is for divisors 2 and 100.     *)
(***************************************************************************)
Two == 2
Hundred == 100
Scale == Two * Hundred
MaxBase == 3

Decimal_from(n) == n * Scale
Decimal_mul(x, y) == (x * y) \div Scale
Decimal_div(x, y) == (x * Scale) \div y

GstRate(total_rate, cgst_rate, sgst_rate, igst_rate) ==
    [total_rate |-> total_rate, cgst_rate |-> cgst_rate,
     sgst_rate |-> sgst_rate, igst_rate |-> igst_rate]

intra_state(total_rate) ==
    GstRate(total_rate,
            Decimal_div(total_rate, Decimal_from(Two)),
            Decimal_div(total_rate, Decimal_from(Two)),
            Decimal_from(0))

inter_state(total_rate) ==
    GstRate(total_rate, Decimal_from(0), Decimal_from(0), total_rate)

GstRate_validate(gst_rate) ==
    IF gst_rate.cgst_rate + gst_rate.sgst_rate + gst_rate.igst_rate
           # gst_rate.total_rate
    THEN "InvalidRate"
    ELSE IF gst_rate.igst_rate = Decimal_from(0)
            /\ gst_rate.cgst_rate # gst_rate.sgst_rate
    THEN "InvalidRate"
    ELSE IF /\ gst_rate.igst_rate > Decimal_from(0)
            /\ \/ gst_rate.cgst_rate > Decimal_from(0)
               \/ gst_rate.sgst_rate > Decimal_from(0)
    THEN "InvalidRate"
    ELSE "Ok"

gst_amount_undivided(base_amount, rate) == Decimal_mul(base_amount, rate)

gst_amount(base_amount, rate) ==
    Decimal_div(Decimal_mul(base_amount, rate), Decimal_from(Hundred))

GstCalculation(base_amount, gst_rate, cgst_amount, sgst_amount, igst_amount) ==
    [base_amount |-> base_amount, gst_rate |-> gst_rate,
     cgst_amount |-> cgst_amount, sgst_amount |-> sgst_amount,
     igst_amount |-> igst_amount,
     total_gst_amount |-> cgst_amount + sgst_amount + igst_amount,
     total_amount |-> base_amount + (cgst_amount + sgst_amount + igst_amount)]

calculate(base_amount, gst_rate) ==
    IF GstRate_validate(gst_rate) # "Ok" THEN None
    ELSE Some(GstCalculation(base_amount, gst_rate,
                             gst_amount(base_amount, gst_rate.cgst_rate),
                             gst_amount(base_amount, gst_rate.sgst_rate),
                             gst_amount(base_amount, gst_rate.igst_rate)))

(* GstCategory::rate, as percentages. *)
CategoryRates == {0, 5, 12, 18, 28}

BaseAmounts == {Decimal_from(n) : n \in (0 - 1)..MaxBase}

GstRateInputs ==
    {intra_state(Decimal_from(r)) : r \in CategoryRates}
    \cup {inter_state(Decimal_from(r)) : r \in CategoryRates}
    \cup {GstRate(Decimal_from(18), Decimal_from(c), Decimal_from(9), Decimal_from(i)) :
            c \in {0, 9}, i \in {0, 9}}

(* A call of GstCalculation::calculate: the ledger is not involved. *)
GstCalculation_calculate(base_amount, gst_rate) ==
    /\ nops < MaxOps
    /\ nops' = nops + 1
    /\ last' = [op |-> "calculate", id |-> "None",
                result |-> IF calculate(base_amount, gst_rate) = None
                           THEN "InvalidRate" ELSE "Ok",
                txn |-> NoTxn, arg |-> NoArg,
                base_amount |-> base_amount, gst_rate |-> gst_rate,
                calculation |-> calculate(base_amount, gst_rate)]
    /\ UNCHANGED <<accounts, transactions, prev, pre_record, tasks>>

NextGst ==
    \E base_amount \in BaseAmounts, gst_rate \in GstRateInputs :
        GstCalculation_calculate(base_amount, gst_rate)

SpecGst == Init /\ [][NextGst]_vars

(* C27: GstCalculation::calculate(base, rate) yields total_gst_amount =    *)
(* cgst_amount + sgst_amount + igst_amount = base * total_rate / 100 and   *)
(* total_amount = base + total_gst_amount; for an intra-state rate the     *)
(* cgst and sgst amounts are equal and the igst amount is 0, for an        *)
(* inter-state rate the cgst and sgst amounts are 0 and the igst amount is *)
(* the total gst amount.                                                   *)
C27_GstAmounts ==
    last.op = "calculate" =>
        LET c == last.calculation
            total_rate == last.gst_rate.total_rate
            intra == last.gst_rate.igst_rate = 0
                     /\ 2 * last.gst_rate.cgst_rate = total_rate
                     /\ 2 * last.gst_rate.sgst_rate = total_rate
            inter == last.gst_rate.igst_rate = total_rate
                     /\ last.gst_rate.cgst_rate = 0
                     /\ last.gst_rate.sgst_rate = 0
        IN  /\ (intra \/ inter) => c # None
            /\ c # None =>
                  /\ c[1].total_gst_amount
                        = c[1].cgst_amount + c[1].sgst_amount + c[1].igst_amount
                  /\ c[1].total_gst_amount * Scale * Hundred
                        = last.base_amount * total_rate
                  /\ c[1].total_amount = last.base_amount + c[1].total_gst_amount
                  /\ intra => /\ c[1].cgst_amount = c[1].sgst_amount
                              /\ c[1].igst_amount = 0
                  /\ inter => /\ c[1].cgst_amount = 0
                              /\ c[1].sgst_amount = 0
                              /\ c[1].igst_amount = c[1].total_gst_amount

C27_Witness ==
    /\ last.op = "calculate"
    /\ last.result = "Ok"
    /\ last.base_amount = Decimal_from(MaxBase)
    /\ last.gst_rate = intra_state(Decimal_from(5))
    /\ last.calculation[1].cgst_amount > 0
    /\ last.calculation[1].cgst_amount * 2 = last.calculation[1].total_gst_amount
    /\ last.calculation[1].total_amount > last.base_amount

(***************************************************************************)
(* ledger/transaction.rs: TransactionBuilder. The builder under            *)
(* construction is last.builder; last.added lists the entries handed to    *)
(* debit and credit, in the order of the calls.                            *)
(***************************************************************************)
Transaction_new(id, date, description, reference) ==
    [id |-> id, date |-> date, entries |-> <<>>, description |-> description,
     reference |-> reference]

add_entry_in_front(txn, entry) ==
    [txn EXCEPT !.entries = <<entry>> \o @]

add_entry(txn, entry) ==
    [txn EXCEPT !.entries = Append(@, entry)]

Entry_new(account_id, entry_type, amount) ==
    [account_id |-> account_id, entry_type |-> entry_type, amount |-> amount]

BuilderAmounts == Amounts \cup {MaxAmount + 1}

BuilderStep(op, builder, added, result, built) ==
    /\ nops < MaxOps
    /\ nops' = nops + 1
    /\ last' = [op |-> op, id |-> builder.id, result |-> result, txn |-> NoTxn,
                arg |-> NoArg, builder |-> builder, added |-> added,
                built |-> built]
    /\ UNCHANGED <<accounts, transactions, prev, pre_record, tasks>>

InitBuilder ==
    /\ tasks = [ledger \in Ledgers |-> IdleTask]
    /\ accounts = EmptyMap
    /\ transactions = EmptyMap
    /\ \E date \in Dates, description \in {"sale", ""} :
          last = [op |-> "TransactionBuilder::new", id |-> "t1", result |-> "Ok",
                  txn |-> NoTxn, arg |-> NoArg,
                  builder |-> Transaction_new("t1", date, description, None),
                  added |-> <<>>, built |-> None]
    /\ prev = [accounts |-> EmptyMap, transactions |-> EmptyMap]
    /\ pre_record = NoPreRecord
    /\ nops = 0

TransactionBuilder_reference(reference) ==
    /\ last.op # "build"
    /\ BuilderStep("reference", [last.builder EXCEPT !.reference = Some(reference)],
                   last.added, "Ok", None)

TransactionBuilder_debit(account_id, amount) ==
    /\ last.op # "build"
    /\ BuilderStep("debit",
                   add_entry(last.builder, Entry_new(account_id, "Debit", amount)),
                   Append(last.added, Entry_new(account_id, "Debit", amount)),
                   "Ok", None)

TransactionBuilder_credit(account_id, amount) ==
    /\ last.op # "build"
    /\ BuilderStep("credit",
                   add_entry(last.builder, Entry_new(account_id, "Credit", amount)),
                   Append(last.added, Entry_new(account_id, "Credit", amount)),
                   "Ok", None)

TransactionBuilder_build ==
    /\ last.op # "build"
    /\ BuilderStep("build", last.builder, last.added, validate(last.builder),
                   IF validate(last.builder) = "Ok" THEN Some(last.builder) ELSE None)

NextBuilder ==
    \/ \E reference \in {"INV-1"} : TransactionBuilder_reference(reference)
    \/ \E account_id \in AccountIds, amount \in BuilderAmounts :
          TransactionBuilder_debit(account_id, amount)
    \/ \E account_id \in AccountIds, amount \in BuilderAmounts :
          TransactionBuilder_credit(account_id, amount)
    \/ TransactionBuilder_build

SpecBuilder == InitBuilder /\ [][NextBuilder]_vars

(* C28: TransactionBuilder::build returns Ok exactly when the builder has  *)
(* at least two entries, every amount is above 0 and the debit total is    *)
(* the credit total; otherwise it returns an error and no transaction; the *)
(* built transaction has the entries in the order they were added.         *)
C28_BuildValidates ==
    last.op = "build" =>
        LET entries == last.added
            acceptable ==
                /\ Len(entries) >= 2
                /\ \A i \in 1..Len(entries) : entries[i].amount > 0
                /\ SumAmounts(entries, "Debit") = SumAmounts(entries, "Credit")
        IN  /\ last.result = "Ok" <=> acceptable
            /\ last.result # "Ok" => last.built = None
            /\ last.result = "Ok" =>
                  /\ last.built # None
                  /\ last.built[1].entries = entries
                  /\ last.built[1].id = last.id

C28_Witness ==
    /\ last.op = "build"
    /\ last.result = "Ok"
    /\ Len(last.built[1].entries) = 3
    /\ last.built[1].entries[1].entry_type = "Credit"
    /\ last.built[1].entries[3].amount = MaxAmount + 1

(* utils/memory_storage.rs: get_transaction, as TransactionManager and     *)
(* Ledger pass it on.                                                      *)
get_transaction(txns, transaction_id) ==
    IF transaction_id \in DOMAIN txns THEN Some(txns[transaction_id]) ELSE None

(***************************************************************************)
(* One Ledger records or updates a transaction, storage call by storage    *)
(* call, over a ledger that holds t1; a second Ledger on the same storage  *)
(* may delete an account in between, which makes update_account fail.      *)
(***************************************************************************)
NextUpdateSteps ==
    \/ \E txn \in TxnInputs : begin_record_transaction("L1", txn)
    \/ \E txn \in TxnInputs : begin_update_transaction("L1", txn)
    \/ check_account("L1")
    \/ save_transaction_step("L1")
    \/ get_account_step("L1")
    \/ update_account_contains_key("L1")
    \/ update_account_insert("L1")
    \/ update_transaction_persist("L1")
    \/ \E account_id \in AccountIds : delete_account_step("L2", account_id)

SpecUpdateSteps == InitRecorded /\ [][NextUpdateSteps]_vars

BalanceChanged ==
    \E a \in DOMAIN accounts : accounts[a].balance # prev.accounts[a].balance

(* C29: update_transaction persists the new transaction last: in every     *)
(* intermediate state of an update, whether or not a balance has been      *)
(* reversed or re-applied, get_transaction(id) returns the old             *)
(* transaction, and when a balance step fails the stored transaction is    *)
(* still the old one; record_transaction stores the transaction before it  *)
(* changes any balance.                                                    *)
C29_TransactionPersistedLast ==
    LET task == tasks["L1"]
    IN  /\ (/\ task.op = "update_transaction"
            /\ \/ task.pc \in {"get", "update_account", "insert", "persist"}
               \/ task.pc = "done" /\ task.result = "AccountNotFound")
              => get_transaction(transactions, task.txn.id) = Some(task.old)
        /\ (task.op = "record_transaction" /\ BalanceChanged)
              => get_transaction(transactions, task.txn.id) = Some(task.txn)
        /\ (task.op = "record_transaction" /\ task.pc \in {"check", "save"})
              => ~BalanceChanged

C29_Witness ==
    LET task == tasks["L1"]
    IN  /\ task.op = "update_transaction"
        /\ task.pc = "done"
        /\ task.result = "AccountNotFound"
        /\ task.txn # task.old
        /\ BalanceChanged
        /\ get_transaction(transactions, task.txn.id) = Some(task.old)

(***************************************************************************)
(* Transactions with a description and a reference, recorded, updated and  *)
(* deleted on a ledger of two accounts.                                    *)
(***************************************************************************)
DescribedTxnInputs ==
    [id : TxnIds, date : {MaxDate}, description : {"sale", "refund"},
     reference : {None, Some("INV-1")},
     entries : {<<Posting("a1", "Debit"), Posting("a2", "Credit")>>,
                <<Posting("a2", "Credit"), Posting("a1", "Debit")>>}]

NextDescribed ==
    \/ \E txn \in DescribedTxnInputs : record_transaction(txn)
    \/ \E txn \in DescribedTxnInputs : update_transaction(txn)
    \/ \E id \in TxnIds : delete_transaction(id)

SpecDescribed == InitAccounts /\ [][NextDescribed]_vars

(* C30: after a successful record_transaction(T), get_transaction(T.id)    *)
(* returns a transaction with T's id, date, description, reference and     *)
(* entries in T's order, and goes on returning it until an                 *)
(* update_transaction or delete_transaction on that id: no other call      *)
(* changes what get_transaction returns for a stored id.                   *)
C30_RecordGetRoundTrip ==
    /\ (last.op = "record_transaction" /\ last.result = "Ok")
          => get_transaction(transactions, last.id) = Some(last.txn)
    /\ \A id \in DOMAIN prev.transactions :
          \/ last.op \in {"update_transaction", "delete_transaction"} /\ last.id = id
          \/ get_transaction(transactions, id) = Some(prev.transactions[id])

(***************************************************************************)
(* Ledgers used with care: accounts are created but never deleted or       *)
(* replaced, update_transaction is given only transactions whose accounts  *)
(* all exist, and (in SpecFreshIds) record_transaction only ids that are   *)
(* not stored.                                                             *)
(***************************************************************************)
NextExistingAccounts ==
    \/ \E id \in AccountIdInputs, name \in NameInputs,
          account_type \in AccountType, parent_id \in ParentInputs :
            create_account(id, name, account_type, parent_id)
    \/ \E txn \in TxnInputs : record_transaction(txn)
    \/ \E txn \in {t \in TxnInputs : accounts_exist(accounts, t)} :
          update_transaction(txn)
    \/ \E id \in TxnIds : delete_transaction(id)

SpecExistingAccounts == Init /\ [][NextExistingAccounts]_vars

NextFreshIds ==
    \/ \E id \in AccountIdInputs, name \in NameInputs,
          account_type \in AccountType, parent_id \in ParentInputs :
            create_account(id, name, account_type, parent_id)
    \/ \E txn \in {t \in TxnInputs : t.id \notin DOMAIN transactions} :
          record_transaction(txn)
    \/ \E txn \in {t \in TxnInputs : accounts_exist(accounts, t)} :
          update_transaction(txn)
    \/ \E id \in TxnIds : delete_transaction(id)

SpecFreshIds == Init /\ [][NextFreshIds]_vars

(* C31: when every recorded transaction uses an id that is not stored,     *)
(* accounts are never deleted or replaced, and update_transaction is given *)
(* only existing accounts, each account's live balance is the replay of    *)
(* the entries on it over all stored transactions.                         *)
C31_FreshIdsReplayEqualsLive ==
    \A a \in DOMAIN accounts : accounts[a].balance = ReplayedBalance(a, MaxDate)

C31_Witness ==
    /\ last.op = "update_transaction"
    /\ last.result = "Ok"
    /\ last.txn.entries # prev.transactions[last.id].entries
    /\ \E a \in DOMAIN accounts :
          accounts[a].balance # 0 /\ accounts[a].balance # prev.accounts[a].balance

SideTotal(account_types) ==
    SumOver([a \in DOMAIN accounts |-> accounts[a].balance],
            {a \in DOMAIN accounts : accounts[a].account_type \in account_types})

(* C32: when accounts are never deleted or replaced and update_transaction *)
(* is given only existing accounts, between operations the live balances   *)
(* of the debit-normal accounts (Asset, Expense) add up to the same as the *)
(* live balances of the credit-normal accounts (Liability, Equity,         *)
(* Income).                                                                *)
C32_NormalSidesBalance ==
    SideTotal({"Asset", "Expense"}) = SideTotal({"Liability", "Equity", "Income"})

C32_Witness ==
    /\ last.op = "record_transaction"
    /\ last.result = "Ok"
    /\ last.id \in DOMAIN prev.transactions
    /\ SideTotal({"Asset", "Expense"}) # 0
    /\ \E a \in DOMAIN accounts : accounts[a].account_type = "Income"

(* C33: a transaction id identifies at most one posting:                   *)
(* record_transaction of a transaction whose id is already stored fails    *)
(* and changes neither the stored transaction nor any account balance.     *)
C33_StoredIdRejected ==
    (last.op = "record_transaction" /\ last.id \in DOMAIN prev.transactions) =>
        /\ last.result # "Ok"
        /\ transactions[last.id] = prev.transactions[last.id]
        /\ \A a \in DOMAIN prev.accounts :
              a \in DOMAIN accounts
              /\ accounts[a].balance = prev.accounts[a].balance

(* C34: update_transaction fails with AccountNotFound, changing neither    *)
(* balances nor the stored transaction, when the new transaction has an    *)
(* entry whose account does not exist; after a successful update every     *)
(* entry of the stored transaction is on an existing account.              *)
C34_UpdateMissingAccountFails ==
    /\ (/\ last.op = "update_transaction"
        /\ last.id \in DOMAIN prev.transactions
        /\ last.arg.well_formed
        /\ ~last.arg.accounts_known)
          => /\ last.result = "AccountNotFound"
             /\ accounts = prev.accounts
             /\ transactions = prev.transactions
    /\ (last.op = "update_transaction" /\ last.result = "Ok")
          => \A i \in 1..Len(transactions[last.id].entries) :
                transactions[last.id].entries[i].account_id \in DOMAIN accounts

(* C35: a successful update_account(account) leaves the stored balance of  *)
(* that account as it was before the call, whatever balance the supplied   *)
(* account value carries.                                                  *)
C35_UpdateAccountKeepsBalance ==
    (last.op = "update_account" /\ last.result = "Ok") =>
        accounts[last.id].balance = prev.accounts[last.id].balance

(***************************************************************************)
(* ledger/account.rs: StandardChartOfAccounts. get_account_path is a loop  *)
(* of get_account calls; one iteration is one step of the walking task.    *)
(* A walk that has collected more accounts than there are has entered a    *)
(* cycle and goes round it for ever, the path growing at each iteration:   *)
(* the model keeps walking and records only the most recent insertions    *)
(* and whether the number of insertions so far is odd.                     *)
(***************************************************************************)
add_account(account) ==
    /\ CalledOnAccount("add_account", account, "Ok")
    /\ accounts' = save_account(accounts, account)
    /\ UNCHANGED transactions

MostRecent(path) ==
    SubSeq(path, 1, IF Len(path) <= Cardinality(AccountIds) + 1
                    THEN Len(path) ELSE Cardinality(AccountIds) + 1)

PathTask(current_account_id, path) ==
    [pc |-> "walk", op |-> "get_account_path",
     current_account_id |-> current_account_id, path |-> path,
     odd |-> FALSE, result |-> "None"]

begin_get_account_path(ledger, account_id) ==
    /\ tasks[ledger].pc \in {"idle", "done"}
    /\ Step(ledger, PathTask(account_id, <<>>))
    /\ UNCHANGED <<accounts, transactions>>

get_account_path_step(ledger) ==
    LET task == tasks[ledger]
        id == task.current_account_id
    IN  /\ task.pc = "walk"
        /\ Step(ledger,
                IF id = NoParent
                THEN [task EXCEPT !.pc = "done", !.result = "Ok"]
                ELSE IF id \notin DOMAIN accounts
                THEN [task EXCEPT !.pc = "done", !.result = "AccountNotFound",
                                  !.path = <<>>]
                ELSE [task EXCEPT !.current_account_id = accounts[id].parent_id,
                                  !.path = MostRecent(<<accounts[id]>> \o task.path),
                                  !.odd = ~task.odd])
        /\ UNCHANGED <<accounts, transactions>>

Walking == tasks["L1"].pc = "walk"

ChartAccountInputs ==
    {Account_new(id, "Cash", "Asset", parent_id) :
        id \in AccountIds, parent_id \in RegistryParentInputs}

NextChart ==
    \/ ~Walking /\ \E id \in AccountIds, parent_id \in RegistryParentInputs :
            create_account(id, "Cash", "Asset", parent_id)
    \/ ~Walking /\ \E account \in ChartAccountInputs : update_account(account)
    \/ ~Walking /\ \E account \in ChartAccountInputs : add_account(account)
    \/ ~Walking /\ \E account_id \in AccountIds : delete_account(account_id)
    \/ \E account_id \in AccountIds : begin_get_account_path("L1", account_id)
    \/ get_account_path_step("L1")

SpecChart ==
    /\ Init
    /\ [][NextChart]_vars
    /\ WF_vars(get_account_path_step("L1"))

(* C36: get_account_path(id) terminates for every account graph reachable  *)
(* through create_account, update_account, add_account and                 *)
(* delete_account.                                                         *)
C36_GetAccountPathTerminates ==
    [](Walking => <>(tasks["L1"].pc = "done"))

(***************************************************************************)
(* utils/memory_storage.rs: get_trial_balance, account by account. It      *)
(* lists the accounts under one read lock and then computes each row with  *)
(* get_account_balance, which takes the locks anew; one row is one step,   *)
(* and the rows come in the map's iteration order, which is arbitrary.     *)
(***************************************************************************)
TrialBalanceTask(as_of_date, listed, balances) ==
    [pc |-> IF listed = {} THEN "done" ELSE "rows",
     op |-> "get_trial_balance", as_of_date |-> as_of_date,
     listed |-> listed, balances |-> balances,
     total_debits |-> SumSide(balances, DOMAIN balances, "Debit"),
     total_credits |-> SumSide(balances, DOMAIN balances, "Credit"),
     result |-> IF listed = {} THEN "Ok" ELSE "None"]

begin_get_trial_balance(ledger, as_of_date) ==
    /\ tasks[ledger].pc = "idle"
    /\ Step(ledger, TrialBalanceTask(as_of_date, DOMAIN accounts, EmptyMap))
    /\ UNCHANGED <<accounts, transactions>>

get_trial_balance_row(ledger) ==
    LET task == tasks[ledger]
    IN  /\ task.pc = "rows"
        /\ \E id \in task.listed :
              Step(ledger,
                   IF id \notin DOMAIN accounts
                   THEN [task EXCEPT !.pc = "done", !.result = "AccountNotFound"]
                   ELSE TrialBalanceTask(
                            task.as_of_date, task.listed \ {id},
                            map_insert(task.balances, id,
                                       account_balance(accounts, transactions, id,
                                                       task.as_of_date))))
        /\ UNCHANGED <<accounts, transactions>>

NextConcurrentTrialBalance ==
    \/ \E txn \in TxnInputs : begin_record_transaction("L1", txn)
    \/ check_account("L1")
    \/ save_transaction_step("L1")
    \/ get_account_step("L1")
    \/ update_account_contains_key("L1")
    \/ update_account_insert("L1")
    \/ \E as_of_date \in Dates : begin_get_trial_balance("L2", as_of_date)
    \/ get_trial_balance_row("L2")

SpecConcurrentTrialBalance == InitAccounts /\ [][NextConcurrentTrialBalance]_vars

(* C37: get_trial_balance(d) running concurrently with a                   *)
(* record_transaction of a valid transaction dated <= d, through clones of *)
(* one MemoryStorage, returns total_debits = total_credits.                *)
C37_ConcurrentTrialBalanceBalanced ==
    LET reading == tasks["L2"]
    IN  (/\ reading.op = "get_trial_balance"
         /\ reading.pc = "done"
         /\ reading.result = "Ok"
         /\ tasks["L1"].op = "record_transaction"
         /\ tasks["L1"].txn.date <= reading.as_of_date)
            => reading.total_debits = reading.total_credits

(* C38: MemoryStorage::update_account never inserts an account that is     *)
(* absent from the account map: once a concurrent delete_account(id) has   *)
(* returned successfully, no in-flight update_account for that id          *)
(* re-creates the account. No call under SpecUpdateSteps creates an        *)
(* account, so after the successful deletion the account map must lack one *)
(* of the accounts the ledger started with.                                *)
C38_DeletedAccountStaysDeleted ==
    (/\ tasks["L2"].op = "delete_account"
     /\ tasks["L2"].pc = "done"
     /\ tasks["L2"].result = "Ok")
        => DOMAIN accounts # DOMAIN prev.accounts

(***************************************************************************)
(* tax/gst.rs: GstLineItem and GstInvoice. The invoice under construction  *)
(* is last.invoice; last.added lists the line items it was given, first    *)
(* those of GstInvoice::new, then those of add_line_item, in call order.   *)
(***************************************************************************)
GstLineItem(description, quantity, unit_price, line_total_before_gst, gst_calculation) ==
    [description |-> description, quantity |-> quantity,
     unit_price |-> unit_price,
     line_total_before_gst |-> line_total_before_gst,
     gst_calculation |-> gst_calculation,
     line_total_with_gst |-> gst_calculation.total_amount]

(* GstLineItem::new with a rate that GstRate::validate accepts. *)
GstLineItem_new(description, quantity, unit_price, gst_rate) ==
    GstLineItem(description, quantity, unit_price,
                Decimal_mul(quantity, unit_price),
                calculate(Decimal_mul(quantity, unit_price), gst_rate)[1])

RECURSIVE SumBeforeGst(_)
SumBeforeGst(line_items) ==
    IF line_items = <<>> THEN 0
    ELSE Head(line_items).line_total_before_gst + SumBeforeGst(Tail(line_items))

RECURSIVE SumGst(_, _)
SumGst(line_items, component) ==
    IF line_items = <<>> THEN 0
    ELSE Head(line_items).gst_calculation[component]
         + SumGst(Tail(line_items), component)

GstInvoice(line_items, total_before_gst, total_cgst, total_sgst, total_igst) ==
    [line_items |-> line_items, total_before_gst |-> total_before_gst,
     total_cgst |-> total_cgst, total_sgst |-> total_sgst,
     total_igst |-> total_igst,
     total_gst |-> total_cgst + total_sgst + total_igst,
     grand_total |-> total_before_gst + (total_cgst + total_sgst + total_igst)]

GstInvoice_new(line_items) ==
    GstInvoice(line_items, SumBeforeGst(line_items),
               SumGst(line_items, "cgst_amount"),
               SumGst(line_items, "sgst_amount"),
               SumGst(line_items, "igst_amount"))

add_line_item_without_recalculation(invoice, line_item) ==
    [invoice EXCEPT !.line_items = Append(@, line_item)]

(* push, then recalculate_totals, which copies every total of             *)
(* GstInvoice::new(self.line_items).                                       *)
add_line_item(invoice, line_item) ==
    GstInvoice_new(Append(invoice.line_items, line_item))

LineItemInputs ==
    {GstLineItem_new("item", Decimal_from(quantity), Decimal_from(unit_price), gst_rate) :
        quantity \in {1, 2}, unit_price \in {1, MaxBase},
        gst_rate \in {intra_state(Decimal_from(18)), inter_state(Decimal_from(5))}}

InvoiceState(op, invoice, added) ==
    [op |-> op, id |-> "None", result |-> "Ok", txn |-> NoTxn, arg |-> NoArg,
     invoice |-> invoice, added |-> added]

InitInvoice ==
    /\ tasks = [ledger \in Ledgers |-> IdleTask]
    /\ accounts = EmptyMap
    /\ transactions = EmptyMap
    /\ \E line_items \in {<<>>} \cup {<<item>> : item \in LineItemInputs} :
          last = InvoiceState("GstInvoice::new", GstInvoice_new(line_items),
                              line_items)
    /\ prev = [accounts |-> EmptyMap, transactions |-> EmptyMap]
    /\ pre_record = NoPreRecord
    /\ nops = 0

GstInvoice_add_line_item(line_item) ==
    /\ nops < MaxOps
    /\ nops' = nops + 1
    /\ last' = InvoiceState("add_line_item",
                            add_line_item(last.invoice, line_item),
                            Append(last.added, line_item))
    /\ UNCHANGED <<accounts, transactions, prev, pre_record, tasks>>

NextInvoice ==
    \E line_item \in LineItemInputs : GstInvoice_add_line_item(line_item)

SpecInvoice == InitInvoice /\ [][NextInvoice]_vars

RECURSIVE TotalAt(_, _, _)
TotalAt(amount_of, line_items, n) ==
    IF n = 0 THEN 0
    ELSE amount_of[line_items[n]] + TotalAt(amount_of, line_items, n - 1)

TotalOfItems(amount_of, line_items) ==
    TotalAt(amount_of, line_items, Len(line_items))

(* C39: after GstInvoice::new and any sequence of add_line_item calls, the *)
(* invoice holds the line items it was given, total_before_gst,            *)
(* total_cgst, total_sgst and total_igst are the sums of the corresponding *)
(* fields over them, total_gst = total_cgst + total_sgst + total_igst and  *)
(* grand_total = total_before_gst + total_gst.                             *)
C39_InvoiceTotals ==
    LET invoice == last.invoice
        items == invoice.line_items
    IN  /\ items = last.added
        /\ invoice.total_before_gst
              = TotalOfItems([item \in LineItemInputs |-> item.line_total_before_gst],
                             items)
        /\ invoice.total_cgst
              = TotalOfItems([item \in LineItemInputs |->
                                 item.gst_calculation.cgst_amount], items)
        /\ invoice.total_sgst
              = TotalOfItems([item \in LineItemInputs |->
                                 item.gst_calculation.sgst_amount], items)
        /\ invoice.total_igst
              = TotalOfItems([item \in LineItemInputs |->
                                 item.gst_calculation.igst_amount], items)
        /\ invoice.total_gst
              = invoice.total_cgst + invoice.total_sgst + invoice.total_igst
        /\ invoice.grand_total = invoice.total_before_gst + invoice.total_gst

C39_Witness ==
    /\ last.op = "add_line_item"
    /\ Len(last.invoice.line_items) = 3
    /\ last.invoice.total_cgst > 0
    /\ last.invoice.total_igst > 0
    /\ last.invoice.grand_total > last.invoice.total_before_gst
====
